---- MODULE Spec2Model ----
(***************************************************************************)
(* The Axonsoton assignment API: the in-memory store (src/data/store.js),  *)
(* the models, the authentication and authorisation middleware and the GP  *)
(* and patient controllers, as one state machine.  A step of the machine   *)
(* is one HTTP request handled from the first middleware to res.json, or   *)
(* the delivery of the pending response to the client.                     *)
(*                                                                         *)
(* The exercise evaluation engine the specification describes is a second  *)
(* state machine over variables of its own (CounterSpec and EvaluatorSpec,  *)
(* at the end); the page of the frontend is a third (FrontendSpec).        *)
(***************************************************************************)
EXTENDS Integers, Sequences, FiniteSets, TLC

VARIABLES
    users,        \* store.users: sequence of User
    exercises,    \* store.exercises: sequence of Exercise
    assignments,  \* store.assignments: sequence of ExerciseAssignment
    uuids,        \* number of assignment ids uuidv4() has handed out
    now,          \* the clock read by new Date()
    req,          \* the request being answered (NoRequest between requests)
    res,          \* the response written for req (NoResponse between requests)
    before,       \* history: the store as it was when req arrived
    deleted,      \* history: the ids DELETE /api/gp/assignments/:id answered 200 for
    hold_duration,  \* the repetition counter's configuration, in tenths of a second
    counter,      \* the repetition counter: phase, hold timer, count
    calls,        \* history: the calls made on the counter, with what each returned
    session,      \* the evaluator's session state
    clock,        \* the time the evaluator reads, in tenths of a second
    outcome,      \* what the last operation on the evaluator returned or failed with
    currentUser,  \* frontend: the user logged in on the page, or null
    hidden,       \* frontend: which of the three views carry the class 'hidden'
    localStorage, \* frontend: the browser's localStorage for the site
    pageCalls     \* history: the calls made on the page since the browser opened

vars == <<users, exercises, assignments, uuids, now, req, res, before, deleted,
          hold_duration, counter, calls, session, clock, outcome,
          currentUser, hidden, localStorage, pageCalls>>

\* the variables of the exercise evaluator
evaluatorVars == <<session, clock, outcome>>

\* the variables of the frontend page
frontendVars == <<currentUser, hidden, localStorage, pageCalls>>

\* the variables of the exercise evaluation engine, which the API never touches
engineVars == <<hold_duration, counter, calls>>

\* the variables of the API, which the evaluation engine never touches
apiVars == <<users, exercises, assignments, uuids, now, req, res, before, deleted>>

\* The last tick of the clock at which the server takes a request.  A request
\* that writes the store happens at a tick of its own, so MaxClock - BootTime
\* bounds the number of writes in a run.
MaxClock == 3

(***************************************************************************)
(* JavaScript values.  JSON scalars are strings; a Date is its time value. *)
(***************************************************************************)
Null == "null"
Undefined == [undefined |-> TRUE]
NullDate == -1
InvalidDate == -2
BootTime == 1

\* !v for a JSON scalar v
Falsy(v) == v \in {Null, "", "0", "false"}

\* o[k] is neither undefined nor falsy
Truthy(o, k) == k \in DOMAIN o /\ ~Falsy(o[k])

\* new Date(s) for a JSON scalar s
NewDate(s) ==
    CASE s = "2030-01-01" -> 10
      [] s = "2030-06-30" -> 20
      [] s = Null -> 0
      [] OTHER -> InvalidDate

EmptyObject == [k \in {} |-> Null]

(***************************************************************************)
(* The repetition counter of the evaluation engine (specification 4.3):    *)
(* its state when it is created or reset.                                  *)
(***************************************************************************)
RepetitionCounter ==
    [phase |-> "WAITING_FOR_CORRECT", hold_start |-> 0, last_timestamp |-> 0,
     count |-> 0]

\* the session state of an evaluator as it is created, no exercise bound
NewSession ==
    [exercise |-> [bound |-> FALSE], started |-> FALSE, start_time |-> 0,
     counter |-> RepetitionCounter, score_history |-> << >>]

\* an evaluator has been created and nothing called on it
NoEvaluator ==
    /\ session = NewSession
    /\ clock = 0
    /\ outcome = [op |-> "none"]

\* let currentUser = null
NullUser == [null |-> TRUE]

\* the browser is open on no page of the site, its localStorage empty
NoPage ==
    /\ currentUser = NullUser
    /\ hidden = [loginView |-> FALSE, gpView |-> FALSE, patientView |-> FALSE]
    /\ localStorage = EmptyObject
    /\ pageCalls = << >>

(***************************************************************************)
(* Models.                                                                 *)
(***************************************************************************)
User(id, email, password, name, role, t) ==
    [id |-> id, email |-> email, password |-> password, name |-> name,
     role |-> role, createdAt |-> t]

\* toSafeObject returning the user as it is stored
toSafeObjectWhole(u) == u

toSafeObject(u) ==
    [id |-> u.id, email |-> u.email, name |-> u.name, role |-> u.role,
     createdAt |-> u.createdAt]

Exercise(id, name, category, difficulty, t) ==
    [id |-> id, name |-> name, category |-> category,
     difficulty |-> difficulty, videoUrl |-> Null, createdAt |-> t]

\* options.k || dflt
OrDefault(options, k, dflt) == IF Truthy(options, k) THEN options[k] ELSE dflt

\* options.k || dflt for a key that holds a Date or null
OrDefaultDate(options, k, dflt) ==
    IF k \in DOMAIN options /\ options[k] # NullDate THEN options[k] ELSE dflt

ExerciseAssignment(id, gpId, patientId, exerciseId, options, t) ==
    [id |-> id, gpId |-> gpId, patientId |-> patientId,
     exerciseId |-> exerciseId,
     frequency |-> OrDefault(options, "frequency", "daily"),
     repetitions |-> OrDefault(options, "repetitions", "10"),
     sets |-> OrDefault(options, "sets", "3"),
     duration |-> OrDefault(options, "duration", Null),
     notes |-> OrDefault(options, "notes", ""),
     startDate |-> OrDefaultDate(options, "startDate", t),
     endDate |-> OrDefaultDate(options, "endDate", NullDate),
     status |-> OrDefault(options, "status", "active"),
     createdAt |-> t, updatedAt |-> t]

allowedUpdates ==
    {"frequency", "repetitions", "sets", "duration", "notes", "startDate",
     "endDate", "status"}

\* ExerciseAssignment.update(updates), at time t
AssignmentUpdate(a, updates, t) ==
    [k \in DOMAIN a |->
        IF k = "updatedAt" THEN t
        ELSE IF k \in allowedUpdates /\ k \in DOMAIN updates THEN updates[k]
        ELSE a[k]]

(***************************************************************************)
(* The store (src/data/store.js).                                          *)
(***************************************************************************)
\* Array.prototype.findIndex on the id, 1-based; 0 stands for -1
FindIndex(seq, id) ==
    IF \E i \in 1..Len(seq) : seq[i].id = id
    THEN CHOOSE i \in 1..Len(seq) :
            /\ seq[i].id = id
            /\ \A j \in 1..(i - 1) : seq[j].id # id
    ELSE 0

\* Array.prototype.find on the id
findById(seq, id) ==
    IF FindIndex(seq, id) = 0 THEN Undefined ELSE seq[FindIndex(seq, id)]

\* Array.prototype.splice(index, 1)
Splice(seq, index) ==
    [i \in 1..(Len(seq) - 1) |-> IF i < index THEN seq[i] ELSE seq[i + 1]]

IsPatient(u) == u.role = "patient"

\* userStore.findByRole with the filter left out
findByRoleEvery(us) == us

findByRolePatient(us) == SelectSeq(us, IsPatient)

\* assignmentStore.findByGpId with the filter left out
findByGpIdEvery(as, gpId) == as

findByGpId(as, gpId) ==
    LET Mine(a) == a.gpId = gpId IN SelectSeq(as, Mine)

\* assignmentStore.findByPatientId with the filter left out
findByPatientIdEvery(as, patientId) == as

findByPatientId(as, patientId) ==
    LET Mine(a) == a.patientId = patientId IN SelectSeq(as, Mine)

findByGpAndPatient(as, gpId, patientId) ==
    LET Mine(a) == a.gpId = gpId /\ a.patientId = patientId
    IN SelectSeq(as, Mine)

\* assignmentStore.findActiveByPatientId without the test of the status
findActiveByPatientIdAnyStatus(as, patientId) ==
    LET Mine(a) == a.patientId = patientId IN SelectSeq(as, Mine)

findActiveByPatientId(as, patientId) ==
    LET Mine(a) == a.patientId = patientId /\ a.status = "active"
    IN SelectSeq(as, Mine)

\* the options object assignmentStore.create hands to the constructor
CreateOptions(data) ==
    [k \in DOMAIN data \cap
        {"frequency", "repetitions", "sets", "duration", "notes",
         "startDate", "endDate"} |-> data[k]]

\* uuidv4(): the n-th id handed out
Uuid(n) == n

\* assignmentStore.create with gpId and patientId in each other's place
StoreCreateSwapped(data, id, t) ==
    ExerciseAssignment(id, data.patientId, data.gpId, data.exerciseId,
                       CreateOptions(data), t)

\* assignmentStore.create: the new assignment
StoreCreate(data, id, t) ==
    ExerciseAssignment(id, data.gpId, data.patientId, data.exerciseId,
                       CreateOptions(data), t)

\* assignmentStore.update calling update on every assignment of the array
StoreUpdateEvery(as, id, updates, t) ==
    [i \in 1..Len(as) |-> AssignmentUpdate(as[i], updates, t)]

\* assignmentStore.update: the array after the call
StoreUpdate(as, id, updates, t) ==
    IF FindIndex(as, id) = 0 THEN as
    ELSE [as EXCEPT ![FindIndex(as, id)] = AssignmentUpdate(@, updates, t)]

\* assignmentStore.delete with splice(index): all from index on are removed
StoreDeleteToEnd(as, id) ==
    IF FindIndex(as, id) > 0 THEN SubSeq(as, 1, FindIndex(as, id) - 1) ELSE as

\* assignmentStore.delete testing index > 0 where findIndex counts from 0
StoreDeleteIndexPositive(as, id) ==
    IF FindIndex(as, id) > 1 THEN Splice(as, FindIndex(as, id)) ELSE as

\* assignmentStore.delete: the array after the call
StoreDelete(as, id) ==
    IF FindIndex(as, id) > 0 THEN Splice(as, FindIndex(as, id)) ELSE as

(***************************************************************************)
(* initializeSampleData.                                                   *)
(***************************************************************************)
SampleUsers ==
    << User("gp1", "dr.smith@hospital.com", "password123", "Dr. Sarah Smith", "gp", BootTime),
       User("gp2", "dr.jones@hospital.com", "password123", "Dr. Michael Jones", "gp", BootTime),
       User("patient1", "john.doe@email.com", "password123", "John Doe", "patient", BootTime),
       User("patient2", "jane.wilson@email.com", "password123", "Jane Wilson", "patient", BootTime),
       User("patient3", "bob.brown@email.com", "password123", "Bob Brown", "patient", BootTime) >>

SampleExercises ==
    << Exercise("ex1", "Shoulder Stretch", "stretching", "easy", BootTime),
       Exercise("ex2", "Wall Push-ups", "strength", "easy", BootTime),
       Exercise("ex3", "Single Leg Balance", "balance", "medium", BootTime),
       Exercise("ex4", "Walking in Place", "cardio", "easy", BootTime),
       Exercise("ex5", "Seated Leg Raises", "strength", "easy", BootTime),
       Exercise("ex6", "Neck Rotations", "stretching", "easy", BootTime),
       Exercise("ex7", "Heel-to-Toe Walk", "balance", "medium", BootTime),
       Exercise("ex8", "Hand Grip Exercises", "strength", "easy", BootTime) >>

SampleAssignments ==
    << ExerciseAssignment(Uuid(1), "gp1", "patient1", "ex1",
          [frequency |-> "daily", repetitions |-> "10", sets |-> "2",
           notes |-> "Take it slow, focus on stretching not straining"],
          BootTime),
       ExerciseAssignment(Uuid(2), "gp1", "patient1", "ex4",
          [frequency |-> "daily", duration |-> "5",
           notes |-> "Start with 2 minutes and work up"],
          BootTime) >>

(***************************************************************************)
(* Requests and responses.                                                 *)
(***************************************************************************)
NoRequest == [route |-> "none"]
NoResponse == [status |-> 0, controller |-> FALSE]

Request(route, headers, params, query, body) ==
    [route |-> route, headers |-> headers, params |-> params,
     query |-> query, body |-> body]

\* What handling a request comes to: the response, and the store, the ids
\* handed out and the clock after it.
Outcome(status, body, as, n, t) ==
    [status |-> status, body |-> body, controller |-> FALSE,
     assignments |-> as, uuids |-> n, now |-> t]

\* the outcome of a request that a route handed to its controller
Controller(out) == [out EXCEPT !.controller = TRUE]

\* the store
Store == [users |-> users, exercises |-> exercises, assignments |-> assignments]

\* res.status(status).json(body) by a handler that writes nothing
Reply(status, body) == Outcome(status, body, assignments, uuids, now)

ErrorBody(msg) == [error |-> msg]

(***************************************************************************)
(* Middleware (src/middleware/auth.js).                                    *)
(***************************************************************************)
HeaderUserId(r) ==
    IF "x-user-id" \in DOMAIN r.headers THEN r.headers["x-user-id"] ELSE ""

\* userStore.findById matching every user: the first one is found
ReqUserFirstUser(r) == IF HeaderUserId(r) = "" THEN Undefined ELSE users[1]

\* req.user as authenticate sets it
ReqUser(r) == findById(users, HeaderUserId(r))

authenticate(r, next) ==
    IF ~("x-user-id" \in DOMAIN r.headers /\ ~Falsy(r.headers["x-user-id"]))
    THEN Reply(401, ErrorBody("Authentication required. Please provide X-User-Id header."))
    ELSE IF ReqUser(r) = Undefined
    THEN Reply(401, ErrorBody("Invalid user ID"))
    ELSE next

\* authorizeGP without the test of the role
authorizeGPAnyRole(r, next) ==
    IF ReqUser(r) = Undefined
    THEN Reply(401, ErrorBody("Authentication required"))
    ELSE next

authorizeGP(r, next) ==
    IF ReqUser(r) = Undefined
    THEN Reply(401, ErrorBody("Authentication required"))
    ELSE IF ReqUser(r).role # "gp"
    THEN Reply(403, ErrorBody("Access denied. Only GPs can perform this action."))
    ELSE next

authorizePatient(r, next) ==
    IF ReqUser(r) = Undefined
    THEN Reply(401, ErrorBody("Authentication required"))
    ELSE IF ReqUser(r).role # "patient"
    THEN Reply(403, ErrorBody("Access denied. Only patients can access this resource."))
    ELSE next

\* router.use(authenticate); router.use(authorizeGP) in front of the routes
GpRouter(r, next) == authenticate(r, authorizeGP(r, next))

\* router.use(authenticate); router.use(authorizePatient)
PatientRouter(r, next) == authenticate(r, authorizePatient(r, next))

(***************************************************************************)
(* GP controllers (src/controllers/gpController.js).                       *)
(***************************************************************************)
\* u ? u.toSafeObject() : null
SafeOrNull(u) == IF u = Undefined THEN Null ELSE toSafeObject(u)

\* e || null
ValueOrNull(e) == IF e = Undefined THEN Null ELSE e

\* { ...a, ...extra }
Spread(a, extra) == extra @@ a

\* patients.map(p => p.toSafeObject())
SafeObjects(us) == [i \in 1..Len(us) |-> toSafeObject(us[i])]

getPatients(r) == Reply(200, SafeObjects(findByRolePatient(users)))

getExercises(r) ==
    LET ByCategory(e) == Truthy(r.query, "category") => e.category = r.query.category
        ByDifficulty(e) == Truthy(r.query, "difficulty") => e.difficulty = r.query.difficulty
    IN Reply(200, SelectSeq(SelectSeq(exercises, ByCategory), ByDifficulty))

getExerciseById(r) ==
    LET exercise == findById(exercises, r.params.id)
    IN IF exercise = Undefined
       THEN Reply(404, ErrorBody("Exercise not found"))
       ELSE Reply(200, exercise)

\* the enrichment of getGPAssignments
WithPatientAndExercise(a) ==
    Spread(a, [patient |-> SafeOrNull(findById(users, a.patientId)),
               exercise |-> ValueOrNull(findById(exercises, a.exerciseId))])

\* the enrichment of getPatientAssignmentsByGP
WithExercise(a) ==
    Spread(a, [exercise |-> ValueOrNull(findById(exercises, a.exerciseId))])

getGPAssignments(r) ==
    LET found == findByGpId(assignments, ReqUser(r).id)
    IN Reply(200, [i \in 1..Len(found) |-> WithPatientAndExercise(found[i])])

\* !patient || patient.role !== 'patient', with the role not looked at
NotAPatientUnknownOnly(u) == u = Undefined

\* !patient || patient.role !== 'patient'
NotAPatient(u) == u = Undefined \/ u.role # "patient"

getPatientAssignmentsByGP(r) ==
    LET patient == findById(users, r.params.patientId)
        found == findByGpAndPatient(assignments, ReqUser(r).id, r.params.patientId)
    IN IF NotAPatient(patient)
       THEN Reply(404, ErrorBody("Patient not found"))
       ELSE Reply(200,
               [patient |-> toSafeObject(patient),
                assignments |-> [i \in 1..Len(found) |-> WithExercise(found[i])]])

\* the object assignExercise hands to assignmentStore.create
AssignData(r, t) ==
    LET body == r.body
        plain == [k \in DOMAIN body \cap
                    {"patientId", "exerciseId", "frequency", "repetitions",
                     "sets", "duration", "notes"} |-> body[k]]
    IN [gpId |-> ReqUser(r).id,
        startDate |-> IF Truthy(body, "startDate")
                      THEN NewDate(body.startDate) ELSE t,
        endDate |-> IF Truthy(body, "endDate")
                    THEN NewDate(body.endDate) ELSE NullDate] @@ plain

\* assignExercise without the test that the exercise is stored
assignExerciseAnyExercise(r) ==
    LET body == r.body
        patient == findById(users, body.patientId)
        exercise == findById(exercises, body.exerciseId)
        assignment == StoreCreate(AssignData(r, now), Uuid(uuids + 1), now)
    IN IF ~Truthy(body, "patientId")
       THEN Reply(400, ErrorBody("Patient ID is required"))
       ELSE IF ~Truthy(body, "exerciseId")
       THEN Reply(400, ErrorBody("Exercise ID is required"))
       ELSE IF NotAPatient(patient)
       THEN Reply(404, ErrorBody("Patient not found"))
       ELSE Outcome(201,
               [message |-> "Exercise assigned successfully",
                assignment |->
                    Spread(assignment, [patient |-> toSafeObject(patient),
                                        exercise |-> exercise])],
               Append(assignments, assignment), uuids + 1, now + 1)

assignExercise(r) ==
    LET body == r.body
        patient == findById(users, body.patientId)
        exercise == findById(exercises, body.exerciseId)
        assignment == StoreCreate(AssignData(r, now), Uuid(uuids + 1), now)
    IN IF ~Truthy(body, "patientId")
       THEN Reply(400, ErrorBody("Patient ID is required"))
       ELSE IF ~Truthy(body, "exerciseId")
       THEN Reply(400, ErrorBody("Exercise ID is required"))
       ELSE IF NotAPatient(patient)
       THEN Reply(404, ErrorBody("Patient not found"))
       ELSE IF exercise = Undefined
       THEN Reply(404, ErrorBody("Exercise not found"))
       ELSE Outcome(201,
               [message |-> "Exercise assigned successfully",
                assignment |->
                    Spread(assignment, [patient |-> toSafeObject(patient),
                                        exercise |-> exercise])],
               Append(assignments, assignment), uuids + 1, now + 1)

\* the updates object updateAssignment builds from the body
UpdatesOf(body) ==
    [k \in DOMAIN body \cap allowedUpdates |->
        IF k = "startDate" THEN NewDate(body[k])
        ELSE IF k = "endDate"
        THEN (IF Falsy(body[k]) THEN NullDate ELSE NewDate(body[k]))
        ELSE body[k]]

updateAssignment(r) ==
    LET id == r.params.id
        assignment == findById(assignments, id)
        updated == StoreUpdate(assignments, id, UpdatesOf(r.body), now)
        updatedAssignment == findById(updated, id)
    IN IF assignment = Undefined
       THEN Reply(404, ErrorBody("Assignment not found"))
       ELSE IF assignment.gpId # ReqUser(r).id
       THEN Reply(403, ErrorBody("You can only update your own assignments"))
       ELSE Outcome(200,
               [message |-> "Assignment updated successfully",
                assignment |->
                    Spread(updatedAssignment,
                           [patient |-> SafeOrNull(findById(users, updatedAssignment.patientId)),
                            exercise |-> findById(exercises, updatedAssignment.exerciseId)])],
               updated, uuids, now + 1)

\* deleteAssignment without the test of the owner
deleteAssignmentAnyGp(r) ==
    LET id == r.params.id
        assignment == findById(assignments, id)
    IN IF assignment = Undefined
       THEN Reply(404, ErrorBody("Assignment not found"))
       ELSE Outcome(200, [message |-> "Assignment deleted successfully"],
                    StoreDelete(assignments, id), uuids, now + 1)

deleteAssignment(r) ==
    LET id == r.params.id
        assignment == findById(assignments, id)
    IN IF assignment = Undefined
       THEN Reply(404, ErrorBody("Assignment not found"))
       ELSE IF assignment.gpId # ReqUser(r).id
       THEN Reply(403, ErrorBody("You can only delete your own assignments"))
       ELSE Outcome(200, [message |-> "Assignment deleted successfully"],
                    StoreDelete(assignments, id), uuids, now + 1)

(***************************************************************************)
(* Patient controllers (src/controllers/patientController.js).             *)
(***************************************************************************)
\* the enrichment of getMyAssignments and getAssignmentById
WithGpAndExercise(a) ==
    Spread(a, [gp |-> SafeOrNull(findById(users, a.gpId)),
               exercise |-> ValueOrNull(findById(exercises, a.exerciseId))])

getMyAssignments(r) ==
    LET found == IF "status" \in DOMAIN r.query /\ r.query.status = "active"
                 THEN findActiveByPatientId(assignments, ReqUser(r).id)
                 ELSE findByPatientId(assignments, ReqUser(r).id)
    IN Reply(200, [i \in 1..Len(found) |-> WithGpAndExercise(found[i])])

\* getAssignmentById without the test of the owner
getAssignmentByIdAnyPatient(r) ==
    LET assignment == findById(assignments, r.params.id)
    IN IF assignment = Undefined
       THEN Reply(404, ErrorBody("Assignment not found"))
       ELSE Reply(200, WithGpAndExercise(assignment))

getAssignmentById(r) ==
    LET assignment == findById(assignments, r.params.id)
    IN IF assignment = Undefined
       THEN Reply(404, ErrorBody("Assignment not found"))
       ELSE IF assignment.patientId # ReqUser(r).id
       THEN Reply(403, ErrorBody("Access denied"))
       ELSE Reply(200, WithGpAndExercise(assignment))

\* markAssignmentComplete without the test of the owner
markAssignmentCompleteAnyPatient(r) ==
    LET id == r.params.id
        assignment == findById(assignments, id)
    IN IF assignment = Undefined
       THEN Reply(404, ErrorBody("Assignment not found"))
       ELSE Outcome(200, [message |-> "Assignment marked as completed"],
                    StoreUpdate(assignments, id, [status |-> "completed"], now),
                    uuids, now + 1)

\* markAssignmentComplete answering 403 for an id it does not find
markAssignmentCompleteDenyUnknown(r) ==
    LET id == r.params.id
        assignment == findById(assignments, id)
    IN IF assignment = Undefined \/ assignment.patientId # ReqUser(r).id
       THEN Reply(403, ErrorBody("Access denied"))
       ELSE Outcome(200, [message |-> "Assignment marked as completed"],
                    StoreUpdate(assignments, id, [status |-> "completed"], now),
                    uuids, now + 1)

\* markAssignmentComplete writing the status 'complete'
markAssignmentCompleteOtherStatus(r) ==
    LET id == r.params.id
        assignment == findById(assignments, id)
    IN IF assignment = Undefined
       THEN Reply(404, ErrorBody("Assignment not found"))
       ELSE IF assignment.patientId # ReqUser(r).id
       THEN Reply(403, ErrorBody("Access denied"))
       ELSE Outcome(200, [message |-> "Assignment marked as completed"],
                    StoreUpdate(assignments, id, [status |-> "complete"], now),
                    uuids, now + 1)

markAssignmentComplete(r) ==
    LET id == r.params.id
        assignment == findById(assignments, id)
    IN IF assignment = Undefined
       THEN Reply(404, ErrorBody("Assignment not found"))
       ELSE IF assignment.patientId # ReqUser(r).id
       THEN Reply(403, ErrorBody("Access denied"))
       ELSE Outcome(200, [message |-> "Assignment marked as completed"],
                    StoreUpdate(assignments, id, [status |-> "completed"], now),
                    uuids, now + 1)

getExerciseSummary(r) ==
    LET mine == findByPatientId(assignments, ReqUser(r).id)
        IsActive(a) == a.status = "active"
        IsCompleted(a) == a.status = "completed"
        IsCancelled(a) == a.status = "cancelled"
        ExerciseOf(a) == findById(exercises, a.exerciseId)
        Known(a) == ExerciseOf(a) # Undefined
        known == SelectSeq(mine, Known)
        categories == {ExerciseOf(known[i]).category : i \in 1..Len(known)}
        difficulties == {ExerciseOf(known[i]).difficulty : i \in 1..Len(known)}
    IN Reply(200,
          [total |-> Len(mine),
           active |-> Len(SelectSeq(mine, IsActive)),
           completed |-> Len(SelectSeq(mine, IsCompleted)),
           cancelled |-> Len(SelectSeq(mine, IsCancelled)),
           byCategory |->
               [c \in categories |->
                   Cardinality({i \in 1..Len(known) : ExerciseOf(known[i]).category = c})],
           byDifficulty |->
               [d \in difficulties |->
                   Cardinality({i \in 1..Len(known) : ExerciseOf(known[i]).difficulty = d})]])

(***************************************************************************)
(* Auth routes (src/routes/authRoutes.js): public, no middleware in front. *)
(***************************************************************************)
\* userStore.findByEmail
findByEmail(us, email) ==
    IF \E i \in 1..Len(us) : us[i].email = email
    THEN us[CHOOSE i \in 1..Len(us) :
                /\ us[i].email = email
                /\ \A j \in 1..(i - 1) : us[j].email # email]
    ELSE Undefined

\* the login handler without the comparison of the password
loginAnyPassword(r) ==
    LET body == r.body
        user == findByEmail(users, body.email)
    IN IF ~Truthy(body, "email") \/ ~Truthy(body, "password")
       THEN Reply(400, ErrorBody("Email and password are required"))
       ELSE IF user = Undefined
       THEN Reply(401, ErrorBody("Invalid credentials"))
       ELSE Reply(200, [message |-> "Login successful", user |-> toSafeObject(user)])

\* router.post('/login', ...)
login(r) ==
    LET body == r.body
        user == findByEmail(users, body.email)
    IN IF ~Truthy(body, "email") \/ ~Truthy(body, "password")
       THEN Reply(400, ErrorBody("Email and password are required"))
       ELSE IF user = Undefined \/ user.password # body.password
       THEN Reply(401, ErrorBody("Invalid credentials"))
       ELSE Reply(200, [message |-> "Login successful", user |-> toSafeObject(user)])

\* router.get('/users', ...)
getUsers(r) == Reply(200, SafeObjects(users))

\* the 404 handler of app.js, for a path no route matches
notFound(r) == Reply(404, ErrorBody("Not found"))

(***************************************************************************)
(* The requests a client sends.                                            *)
(***************************************************************************)
UserIdInputs == {"gp1", "gp2", "patient1", "patient2", "nobody"}

HeaderInputs == {EmptyObject} \cup {("x-user-id" :> u) : u \in UserIdInputs}

\* every assignment id handed out so far, and one that never was
AssignmentIdInputs == 1..(uuids + 1)

ExerciseQueryInputs == {EmptyObject, [category |-> "strength", difficulty |-> "easy"]}

ExerciseIdInputs == {"ex2", "nope"}

PatientIdInputs == {"patient1", "patient2", "gp2", "nobody"}

StatusQueryInputs ==
    {EmptyObject} \cup {[status |-> v] : v \in {"active", "completed", "cancelled"}}

\* the optional fields of an assignment as a client fills them in
FullOptions ==
    [frequency |-> "weekly", repetitions |-> "5", sets |-> "2",
     duration |-> "15", notes |-> "gently", startDate |-> "2030-01-01",
     endDate |-> "2030-06-30", status |-> "cancelled"]

\* the patientId of a body: a patient, a GP, nobody
BodyPatientIdInputs == {"patient2", "gp2", "nobody"}

AssignBodyInputs ==
    {EmptyObject, [patientId |-> "patient2"], [exerciseId |-> "ex2"]}
    \cup {[patientId |-> p, exerciseId |-> e] :
            p \in BodyPatientIdInputs, e \in ExerciseIdInputs}
    \cup {[patientId |-> "patient2", exerciseId |-> "ex2"] @@ FullOptions,
          [patientId |-> "gp2", exerciseId |-> "ex2"] @@ FullOptions}

UpdateBodyInputs ==
    {EmptyObject, FullOptions,
     [frequency |-> "weekly"], [repetitions |-> "5"], [sets |-> "2"],
     [duration |-> "15"], [notes |-> "gently"],
     [startDate |-> "2030-01-01"], [endDate |-> "2030-06-30"],
     [endDate |-> Null],
     [status |-> "completed"], [status |-> "cancelled"], [status |-> "paused"],
     [status |-> "active", patientId |-> "patient2", gpId |-> "gp2"]}

\* the bodies of POST /api/auth/login: fields missing or empty, the password
\* of a stored user right and wrong, an email no user has
LoginBodyInputs ==
    {EmptyObject,
     [email |-> "john.doe@email.com"],
     [password |-> "password123"],
     [email |-> "", password |-> "password123"],
     [email |-> "john.doe@email.com", password |-> "password123"],
     [email |-> "dr.jones@hospital.com", password |-> "password123"],
     [email |-> "john.doe@email.com", password |-> "Password123"],
     [email |-> "nobody@email.com", password |-> "password123"]}

\* the auth routes read no header: sent without one, or with a stale one
PublicHeaderInputs == {EmptyObject, ("x-user-id" :> "nobody")}

(***************************************************************************)
(* The state machine.                                                      *)
(***************************************************************************)
Init ==
    /\ users = SampleUsers
    /\ exercises = SampleExercises
    /\ assignments = SampleAssignments
    /\ uuids = Len(SampleAssignments)
    /\ now = BootTime + 1
    /\ req = NoRequest
    /\ res = NoResponse
    /\ before = [users |-> SampleUsers, exercises |-> SampleExercises,
                 assignments |-> SampleAssignments]
    /\ deleted = {}
    /\ hold_duration = 0
    /\ counter = RepetitionCounter
    /\ calls = << >>
    /\ NoEvaluator
    /\ NoPage

\* The server answers request r with outcome out.
Respond(r, out) ==
    /\ res = NoResponse
    /\ now <= MaxClock
    /\ req' = r
    /\ res' = [status |-> out.status, body |-> out.body,
                controller |-> out.controller]
    /\ assignments' = out.assignments
    /\ uuids' = out.uuids
    /\ now' = out.now
    /\ before' = Store
    /\ deleted' = IF r.route = "DELETE /api/gp/assignments/:id" /\ out.status = 200
                  THEN deleted \cup {r.params.id} ELSE deleted
    /\ UNCHANGED <<users, exercises>>
    /\ UNCHANGED <<engineVars, evaluatorVars, frontendVars>>

GetPatients ==
    \E h \in HeaderInputs :
        LET r == Request("GET /api/gp/patients", h, EmptyObject, EmptyObject, EmptyObject)
        IN Respond(r, GpRouter(r, Controller(getPatients(r))))

GetExercises ==
    \E h \in HeaderInputs, q \in ExerciseQueryInputs :
        LET r == Request("GET /api/gp/exercises", h, EmptyObject, q, EmptyObject)
        IN Respond(r, GpRouter(r, Controller(getExercises(r))))

GetExerciseById ==
    \E h \in HeaderInputs, id \in ExerciseIdInputs :
        LET r == Request("GET /api/gp/exercises/:id", h, [id |-> id], EmptyObject, EmptyObject)
        IN Respond(r, GpRouter(r, Controller(getExerciseById(r))))

GetGPAssignments ==
    \E h \in HeaderInputs :
        LET r == Request("GET /api/gp/assignments", h, EmptyObject, EmptyObject, EmptyObject)
        IN Respond(r, GpRouter(r, Controller(getGPAssignments(r))))

GetPatientAssignmentsByGP ==
    \E h \in HeaderInputs, p \in PatientIdInputs :
        LET r == Request("GET /api/gp/patients/:patientId/assignments", h,
                         [patientId |-> p], EmptyObject, EmptyObject)
        IN Respond(r, GpRouter(r, Controller(getPatientAssignmentsByGP(r))))

AssignExercise ==
    \E h \in HeaderInputs, b \in AssignBodyInputs :
        LET r == Request("POST /api/gp/assignments", h, EmptyObject, EmptyObject, b)
        IN Respond(r, GpRouter(r, Controller(assignExercise(r))))

UpdateAssignment ==
    \E h \in HeaderInputs, id \in AssignmentIdInputs, b \in UpdateBodyInputs :
        LET r == Request("PUT /api/gp/assignments/:id", h, [id |-> id], EmptyObject, b)
        IN Respond(r, GpRouter(r, Controller(updateAssignment(r))))

DeleteAssignment ==
    \E h \in HeaderInputs, id \in AssignmentIdInputs :
        LET r == Request("DELETE /api/gp/assignments/:id", h, [id |-> id], EmptyObject, EmptyObject)
        IN Respond(r, GpRouter(r, Controller(deleteAssignment(r))))

GpNotFound ==
    \E h \in HeaderInputs :
        LET r == Request("GET /api/gp/*", h, EmptyObject, EmptyObject, EmptyObject)
        IN Respond(r, GpRouter(r, notFound(r)))

GetMyAssignments ==
    \E h \in HeaderInputs, q \in StatusQueryInputs :
        LET r == Request("GET /api/patient/assignments", h, EmptyObject, q, EmptyObject)
        IN Respond(r, PatientRouter(r, Controller(getMyAssignments(r))))

GetAssignmentById ==
    \E h \in HeaderInputs, id \in AssignmentIdInputs :
        LET r == Request("GET /api/patient/assignments/:id", h, [id |-> id], EmptyObject, EmptyObject)
        IN Respond(r, PatientRouter(r, Controller(getAssignmentById(r))))

MarkAssignmentComplete ==
    \E h \in HeaderInputs, id \in AssignmentIdInputs :
        LET r == Request("PUT /api/patient/assignments/:id/complete", h, [id |-> id],
                         EmptyObject, EmptyObject)
        IN Respond(r, PatientRouter(r, Controller(markAssignmentComplete(r))))

GetExerciseSummary ==
    \E h \in HeaderInputs :
        LET r == Request("GET /api/patient/summary", h, EmptyObject, EmptyObject, EmptyObject)
        IN Respond(r, PatientRouter(r, Controller(getExerciseSummary(r))))

PatientNotFound ==
    \E h \in HeaderInputs :
        LET r == Request("GET /api/patient/*", h, EmptyObject, EmptyObject, EmptyObject)
        IN Respond(r, PatientRouter(r, notFound(r)))

Login ==
    \E h \in PublicHeaderInputs, b \in LoginBodyInputs :
        LET r == Request("POST /api/auth/login", h, EmptyObject, EmptyObject, b)
        IN Respond(r, Controller(login(r)))

GetUsers ==
    \E h \in PublicHeaderInputs :
        LET r == Request("GET /api/auth/users", h, EmptyObject, EmptyObject, EmptyObject)
        IN Respond(r, Controller(getUsers(r)))

\* The client has the response; the server waits for the next request.
Deliver ==
    /\ res # NoResponse
    /\ req' = NoRequest
    /\ res' = NoResponse
    /\ before' = Store
    /\ UNCHANGED <<users, exercises, assignments, uuids, now, deleted>>
    /\ UNCHANGED <<engineVars, evaluatorVars, frontendVars>>

Next ==
    \/ GetPatients
    \/ GetExercises
    \/ GetExerciseById
    \/ GetGPAssignments
    \/ GetPatientAssignmentsByGP
    \/ AssignExercise
    \/ UpdateAssignment
    \/ DeleteAssignment
    \/ GpNotFound
    \/ GetMyAssignments
    \/ GetAssignmentById
    \/ MarkAssignmentComplete
    \/ GetExerciseSummary
    \/ PatientNotFound
    \/ Login
    \/ GetUsers
    \/ Deliver

Spec == Init /\ [][Next]_vars

(***************************************************************************)
(* What the properties speak of, read off the request, the response and    *)
(* the two stores (before and after) alone.                                *)
(***************************************************************************)
\* a response is pending: req has just been answered with res
Answered == res # NoResponse

GpFamily ==
    {"GET /api/gp/patients", "GET /api/gp/exercises", "GET /api/gp/exercises/:id",
     "GET /api/gp/assignments", "GET /api/gp/patients/:patientId/assignments",
     "POST /api/gp/assignments", "PUT /api/gp/assignments/:id",
     "DELETE /api/gp/assignments/:id", "GET /api/gp/*"}

PatientFamily ==
    {"GET /api/patient/assignments", "GET /api/patient/assignments/:id",
     "PUT /api/patient/assignments/:id/complete", "GET /api/patient/summary",
     "GET /api/patient/*"}

\* the X-User-Id header is present and is the id of a user of the store
RequesterStored ==
    /\ "x-user-id" \in DOMAIN req.headers
    /\ \E i \in 1..Len(before.users) : before.users[i].id = req.headers["x-user-id"]

\* the stored user the X-User-Id header names
Requester ==
    CHOOSE u \in {before.users[i] : i \in 1..Len(before.users)} :
        u.id = req.headers["x-user-id"]

RequesterIs(role) == RequesterStored /\ Requester.role = role

\* the assignments of a store, as a set
AssignmentSet(as) == {as[i] : i \in 1..Len(as)}

\* the ids of the assignments of a store
AssignmentIds(as) == {as[i].id : i \in 1..Len(as)}

\* the assignment of the store as that has this id
AssignmentOf(as, id) == CHOOSE a \in AssignmentSet(as) : a.id = id

\* the request names, in its :id parameter, an assignment of the store before
NamesStoredAssignment ==
    /\ "id" \in DOMAIN req.params
    /\ req.params.id \in AssignmentIds(before.assignments)

\* the assignment the request names
Named == AssignmentOf(before.assignments, req.params.id)

(***************************************************************************)
(* C1.  Authentication gate: a request to a GP or patient route whose      *)
(* X-User-Id header is absent or is not the id of a stored user is         *)
(* answered 401, no controller runs and the store is unchanged.            *)
(***************************************************************************)
C1_AuthenticationGate ==
    (Answered /\ req.route \in GpFamily \cup PatientFamily /\ ~RequesterStored)
        => /\ res.status = 401
           /\ ~res.controller
           /\ Store = before

\* an unknown user id on the update route, naming a stored assignment
C1_Witness ==
    /\ Answered
    /\ req.route = "PUT /api/gp/assignments/:id"
    /\ NamesStoredAssignment
    /\ "x-user-id" \in DOMAIN req.headers
    /\ ~RequesterStored
    /\ res.status = 401

(***************************************************************************)
(* C2.  Role gate: a GP controller runs only for a requester of role gp, a *)
(* patient controller only for a requester of role patient; a stored user  *)
(* of the other role is answered 403 on every route of the family and the  *)
(* store is unchanged.                                                     *)
(***************************************************************************)
C2_RoleGate ==
    Answered =>
        /\ (res.controller /\ req.route \in GpFamily) => RequesterIs("gp")
        /\ (res.controller /\ req.route \in PatientFamily) => RequesterIs("patient")
        /\ (req.route \in GpFamily /\ RequesterIs("patient"))
              => (res.status = 403 /\ Store = before)
        /\ (req.route \in PatientFamily /\ RequesterIs("gp"))
              => (res.status = 403 /\ Store = before)

\* a patient posts a well-formed assignment and is refused
C2_Witness ==
    /\ Answered
    /\ req.route = "POST /api/gp/assignments"
    /\ RequesterIs("patient")
    /\ DOMAIN req.body = {"patientId", "exerciseId"}
    /\ req.body.exerciseId = "ex2"
    /\ req.body.patientId = "patient2"
    /\ res.status = 403

(***************************************************************************)
(* C3.  GP ownership: PUT or DELETE /api/gp/assignments/:id by a GP who is *)
(* not the assignment's gpId is answered 403 and leaves the assignment as  *)
(* it was; an assignment that a GP route changed or removed was named by   *)
(* the GP in its gpId.                                                     *)
(***************************************************************************)
C3_GpOwnership ==
    Answered =>
        /\ ( /\ req.route \in {"PUT /api/gp/assignments/:id",
                               "DELETE /api/gp/assignments/:id"}
             /\ RequesterIs("gp")
             /\ NamesStoredAssignment
             /\ Named.gpId # Requester.id )
              => /\ res.status = 403
                 /\ Named \in AssignmentSet(assignments)
                 /\ assignments = before.assignments
        /\ req.route \in GpFamily =>
              \A a \in AssignmentSet(before.assignments) :
                  a \notin AssignmentSet(assignments)
                      => (RequesterIs("gp") /\ Requester.id = a.gpId)

\* gp1 asks to delete an assignment that gp2 created
C3_Witness ==
    /\ Answered
    /\ req.route = "DELETE /api/gp/assignments/:id"
    /\ RequesterIs("gp")
    /\ NamesStoredAssignment
    /\ Requester.id = "gp1"
    /\ Named.gpId = "gp2"
    /\ res.status = 403

(***************************************************************************)
(* C4.  Patient own-only access: GET /api/patient/assignments/:id and PUT  *)
(* /api/patient/assignments/:id/complete by a patient who is not the       *)
(* assignment's patientId are answered 403 with a body that holds nothing  *)
(* of the assignment, and leave the store as it was.                       *)
(***************************************************************************)
C4_PatientOwnOnly ==
    ( /\ Answered
      /\ req.route \in {"GET /api/patient/assignments/:id",
                        "PUT /api/patient/assignments/:id/complete"}
      /\ RequesterIs("patient")
      /\ NamesStoredAssignment
      /\ Named.patientId # Requester.id )
        => /\ res.status = 403
           /\ res.body = [error |-> "Access denied"]
           /\ Store = before

\* patient2 asks for an assignment of patient1
C4_Witness ==
    /\ Answered
    /\ req.route = "GET /api/patient/assignments/:id"
    /\ RequesterIs("patient")
    /\ NamesStoredAssignment
    /\ Requester.id = "patient2"
    /\ Named.patientId = "patient1"
    /\ res.status = 403

\* id is the id of a stored user of role patient
StoredPatientId(id) ==
    \E i \in 1..Len(before.users) :
        before.users[i].id = id /\ before.users[i].role = "patient"

\* id is the id of a stored exercise
StoredExerciseId(id) ==
    \E i \in 1..Len(before.exercises) : before.exercises[i].id = id

(***************************************************************************)
(* C5.  Create: POST /api/gp/assignments by a GP, with the patientId of a  *)
(* stored patient and the exerciseId of a stored exercise, is answered 201 *)
(* and appends one assignment: its id is fresh, its gpId the requester,    *)
(* its patientId and exerciseId as given, its status 'active'.  The        *)
(* assignments stored before are as they were.                             *)
(***************************************************************************)
C5_Create ==
    ( /\ Answered
      /\ req.route = "POST /api/gp/assignments"
      /\ RequesterIs("gp")
      /\ "patientId" \in DOMAIN req.body
      /\ "exerciseId" \in DOMAIN req.body
      /\ StoredPatientId(req.body.patientId)
      /\ StoredExerciseId(req.body.exerciseId) )
        => /\ res.status = 201
           /\ Len(assignments) = Len(before.assignments) + 1
           /\ SubSeq(assignments, 1, Len(before.assignments)) = before.assignments
           /\ users = before.users
           /\ exercises = before.exercises
           /\ LET new == assignments[Len(assignments)]
              IN /\ new.id \notin AssignmentIds(before.assignments)
                 /\ new.id \notin deleted
                 /\ new.gpId = Requester.id
                 /\ new.patientId = req.body.patientId
                 /\ new.exerciseId = req.body.exerciseId
                 /\ new.status = "active"

\* gp2 creates an assignment and the body asks for the status 'cancelled'
C5_Witness ==
    /\ Answered
    /\ req.route = "POST /api/gp/assignments"
    /\ RequesterIs("gp")
    /\ Requester.id = "gp2"
    /\ "status" \in DOMAIN req.body
    /\ req.body.status = "cancelled"
    /\ res.status = 201
    /\ Len(assignments) = Len(before.assignments) + 1

(***************************************************************************)
(* C6.  Create validation: POST /api/gp/assignments by a GP is answered    *)
(* 400 when patientId or exerciseId is missing and, when both are there,   *)
(* 404 when patientId is not the id of a stored patient (the id of a GP    *)
(* included) or exerciseId is not the id of a stored exercise; the store   *)
(* is unchanged in each case.                                              *)
(***************************************************************************)
C6_CreateValidation ==
    ( /\ Answered
      /\ req.route = "POST /api/gp/assignments"
      /\ RequesterIs("gp") )
        => /\ ("patientId" \notin DOMAIN req.body \/ "exerciseId" \notin DOMAIN req.body)
                => (res.status = 400 /\ Store = before)
           /\ ( /\ "patientId" \in DOMAIN req.body
                /\ "exerciseId" \in DOMAIN req.body
                /\ \/ ~StoredPatientId(req.body.patientId)
                   \/ ~StoredExerciseId(req.body.exerciseId) )
                => (res.status = 404 /\ Store = before)

\* the patientId is the id of a GP, the exercise exists
C6_Witness ==
    /\ Answered
    /\ req.route = "POST /api/gp/assignments"
    /\ RequesterIs("gp")
    /\ "patientId" \in DOMAIN req.body
    /\ "exerciseId" \in DOMAIN req.body
    /\ req.body.patientId = "gp2"
    /\ StoredExerciseId(req.body.exerciseId)
    /\ res.status = 404

\* the other assignments are, place by place, as they were before
OthersUnchanged(id) ==
    /\ Len(assignments) = Len(before.assignments)
    /\ \A i \in 1..Len(assignments) :
          before.assignments[i].id # id => assignments[i] = before.assignments[i]

(***************************************************************************)
(* C7.  Update: PUT /api/gp/assignments/:id by the owning GP is answered   *)
(* 200 with the updated assignment.  Each of frequency, repetitions, sets, *)
(* duration, notes, startDate, endDate and status that the body holds is   *)
(* set to the value supplied (a date to the Date of it), each of them that *)
(* the body does not hold keeps its value, and so do id, gpId, patientId,  *)
(* exerciseId and createdAt whatever the body holds; no other assignment   *)
(* changes.                                                                *)
(***************************************************************************)
C7_Update ==
    ( /\ Answered
      /\ req.route = "PUT /api/gp/assignments/:id"
      /\ RequesterIs("gp")
      /\ NamesStoredAssignment
      /\ Named.gpId = Requester.id )
        => /\ res.status = 200
           /\ req.params.id \in AssignmentIds(assignments)
           /\ OthersUnchanged(req.params.id)
           /\ users = before.users
           /\ exercises = before.exercises
           /\ LET old == Named
                  new == AssignmentOf(assignments, req.params.id)
                  body == req.body
              IN /\ \A k \in {"frequency", "repetitions", "sets", "duration",
                              "notes", "status"} :
                        new[k] = IF k \in DOMAIN body THEN body[k] ELSE old[k]
                 /\ new.startDate = IF "startDate" \in DOMAIN body
                                    THEN NewDate(body.startDate)
                                    ELSE old.startDate
                 /\ new.endDate = IF "endDate" \notin DOMAIN body THEN old.endDate
                                  ELSE IF body.endDate = Null THEN NullDate
                                  ELSE NewDate(body.endDate)
                 /\ \A k \in {"id", "gpId", "patientId", "exerciseId", "createdAt"} :
                        new[k] = old[k]
                 /\ \A k \in DOMAIN new : res.body.assignment[k] = new[k]

\* the owner sends a status together with a patientId and a gpId
C7_Witness ==
    /\ Answered
    /\ req.route = "PUT /api/gp/assignments/:id"
    /\ RequesterIs("gp")
    /\ NamesStoredAssignment
    /\ Named.gpId = Requester.id
    /\ {"status", "patientId", "gpId"} \subseteq DOMAIN req.body
    /\ req.body.patientId # Named.patientId
    /\ Len(before.assignments) > 1
    /\ res.status = 200

\* the request names, in its :id parameter, an id deleted before it arrived
NamesDeletedAssignment ==
    /\ "id" \in DOMAIN req.params
    /\ req.params.id \in deleted
    /\ req.params.id \notin AssignmentIds(before.assignments)

\* the assignments a 200 response lists
Listed ==
    CASE req.route \in {"GET /api/gp/assignments", "GET /api/patient/assignments"}
            -> {res.body[i].id : i \in 1..Len(res.body)}
      [] req.route = "GET /api/gp/patients/:patientId/assignments"
            -> {res.body.assignments[i].id : i \in 1..Len(res.body.assignments)}
      [] OTHER -> {}

(***************************************************************************)
(* C8.  Delete: DELETE /api/gp/assignments/:id by the owning GP is         *)
(* answered 200 and takes the assignment out of the store, the others      *)
(* staying as they were.  From then on the id is not in the store, every   *)
(* request that names it (patient get and complete, GP update and delete)  *)
(* is answered 404, no list holds it and the summary does not count it.    *)
(***************************************************************************)
C8_Delete ==
    /\ deleted \cap AssignmentIds(assignments) = {}
    /\ Answered =>
        /\ ( /\ req.route = "DELETE /api/gp/assignments/:id"
             /\ RequesterIs("gp")
             /\ NamesStoredAssignment
             /\ Named.gpId = Requester.id )
              => /\ res.status = 200
                 /\ req.params.id \in deleted
                 /\ LET Kept(a) == a.id # req.params.id
                    IN assignments = SelectSeq(before.assignments, Kept)
                 /\ users = before.users
                 /\ exercises = before.exercises
        /\ ( /\ req.route \in {"PUT /api/gp/assignments/:id",
                               "DELETE /api/gp/assignments/:id"}
             /\ RequesterIs("gp")
             /\ NamesDeletedAssignment )
              => res.status = 404
        /\ ( /\ req.route \in {"GET /api/patient/assignments/:id",
                               "PUT /api/patient/assignments/:id/complete"}
             /\ RequesterIs("patient")
             /\ NamesDeletedAssignment )
              => res.status = 404
        /\ res.status = 200 => Listed \cap deleted = {}
        /\ (req.route = "GET /api/patient/summary" /\ res.status = 200)
              => res.body.total =
                    Cardinality({a \in AssignmentSet(assignments) :
                                    a.patientId = Requester.id /\ a.id \notin deleted})

\* the patient asks to complete an assignment that was deleted
C8_Witness ==
    /\ Answered
    /\ req.route = "PUT /api/patient/assignments/:id/complete"
    /\ RequesterIs("patient")
    /\ Requester.id = "patient1"
    /\ NamesDeletedAssignment
    /\ res.status = 404

(***************************************************************************)
(* C9.  Unknown assignment id: GP update, GP delete, patient get and       *)
(* patient complete on an id that is not in the store are answered 404,    *)
(* and the store is unchanged.                                             *)
(***************************************************************************)
C9_UnknownId ==
    ( /\ Answered
      /\ \/ /\ req.route \in {"PUT /api/gp/assignments/:id",
                              "DELETE /api/gp/assignments/:id"}
            /\ RequesterIs("gp")
         \/ /\ req.route \in {"GET /api/patient/assignments/:id",
                              "PUT /api/patient/assignments/:id/complete"}
            /\ RequesterIs("patient")
      /\ req.params.id \notin AssignmentIds(before.assignments) )
        => /\ res.status = 404
           /\ Store = before

\* a patient asks to complete an id that was never handed out
C9_Witness ==
    /\ Answered
    /\ req.route = "PUT /api/patient/assignments/:id/complete"
    /\ RequesterIs("patient")
    /\ req.params.id \notin AssignmentIds(before.assignments)
    /\ req.params.id \notin deleted
    /\ res.status = 404

\* what GET /api/patient/assignments/:id, sent next by the same patient for
\* the same id, is answered with
FollowingGet ==
    LET g == Request("GET /api/patient/assignments/:id", req.headers,
                     req.params, EmptyObject, EmptyObject)
    IN PatientRouter(g, Controller(getAssignmentById(g)))

(***************************************************************************)
(* C10.  Mark complete: PUT /api/patient/assignments/:id/complete by the   *)
(* patient of the assignment is answered 200 and sets its status to        *)
(* 'completed', which a following GET of it returns; its other fields      *)
(* apart from updatedAt and the other assignments are as they were, also   *)
(* when the status was 'completed' already.                                *)
(***************************************************************************)
C10_MarkComplete ==
    ( /\ Answered
      /\ req.route = "PUT /api/patient/assignments/:id/complete"
      /\ RequesterIs("patient")
      /\ NamesStoredAssignment
      /\ Named.patientId = Requester.id )
        => /\ res.status = 200
           /\ req.params.id \in AssignmentIds(assignments)
           /\ OthersUnchanged(req.params.id)
           /\ users = before.users
           /\ exercises = before.exercises
           /\ LET old == Named
                  new == AssignmentOf(assignments, req.params.id)
              IN /\ new.status = "completed"
                 /\ \A k \in DOMAIN old \ {"status", "updatedAt"} : new[k] = old[k]
           /\ FollowingGet.status = 200
           /\ FollowingGet.body.status = "completed"

\* the patient completes an assignment that is completed already
C10_Witness ==
    /\ Answered
    /\ req.route = "PUT /api/patient/assignments/:id/complete"
    /\ RequesterIs("patient")
    /\ NamesStoredAssignment
    /\ Named.patientId = Requester.id
    /\ Named.status = "completed"
    /\ Named.updatedAt # Named.createdAt
    /\ res.status = 200

\* the fields of a stored assignment
AssignmentFields ==
    {"id", "gpId", "patientId", "exerciseId", "frequency", "repetitions",
     "sets", "duration", "notes", "startDate", "endDate", "status",
     "createdAt", "updatedAt"}

\* the stored assignment an element of a response carries
StoredPart(item) == [k \in AssignmentFields |-> item[k]]

\* the elements of the list a 200 response carries
ListedItems ==
    IF req.route = "GET /api/gp/patients/:patientId/assignments"
    THEN res.body.assignments
    ELSE res.body

\* the response lists exactly the assignments of the set, each of them once
ListsExactly(expected) ==
    /\ {StoredPart(ListedItems[i]) : i \in 1..Len(ListedItems)} = expected
    /\ Len(ListedItems) = Cardinality(expected)

\* the assignments of the store before that are the requester's as a patient
OfRequestingPatient ==
    {a \in AssignmentSet(before.assignments) : a.patientId = Requester.id}

\* the assignments of the store before that are the requester's as a GP
OfRequestingGp ==
    {a \in AssignmentSet(before.assignments) : a.gpId = Requester.id}

(***************************************************************************)
(* C11.  Active filter: GET /api/patient/assignments?status=active by a    *)
(* patient is answered 200 with exactly the stored assignments whose       *)
(* patientId is the requester and whose status is 'active' at that time:   *)
(* none with another status, none of another patient, none missing.        *)
(***************************************************************************)
C11_ActiveFilter ==
    ( /\ Answered
      /\ req.route = "GET /api/patient/assignments"
      /\ "status" \in DOMAIN req.query
      /\ req.query.status = "active"
      /\ RequesterIs("patient") )
        => /\ res.status = 200
           /\ ListsExactly({a \in OfRequestingPatient : a.status = "active"})
           /\ Store = before

\* the patient has an active assignment and one that is active no more
C11_Witness ==
    /\ Answered
    /\ req.route = "GET /api/patient/assignments"
    /\ "status" \in DOMAIN req.query
    /\ req.query.status = "active"
    /\ RequesterIs("patient")
    /\ \E a \in OfRequestingPatient : a.status = "active"
    /\ \E a \in OfRequestingPatient : a.status # "active"
    /\ res.status = 200
    /\ Len(res.body) = 1

(***************************************************************************)
(* C12.  Status filter as the route documents it: with status=completed    *)
(* every assignment GET /api/patient/assignments returns has the status    *)
(* 'completed', and with status=cancelled every one has 'cancelled'.       *)
(***************************************************************************)
C12_StatusFilter ==
    ( /\ Answered
      /\ req.route = "GET /api/patient/assignments"
      /\ "status" \in DOMAIN req.query
      /\ req.query.status \in {"completed", "cancelled"}
      /\ res.status = 200 )
        => \A i \in 1..Len(res.body) : res.body[i].status = req.query.status

(***************************************************************************)
(* C13.  Listing isolation: GET /api/gp/assignments lists exactly the      *)
(* assignments whose gpId is the requesting GP; GET                        *)
(* /api/gp/patients/:patientId/assignments exactly those with that gpId    *)
(* and that patientId, and is answered 404 when patientId is no stored     *)
(* patient; GET /api/patient/assignments without a status exactly those    *)
(* whose patientId is the requesting patient.                              *)
(***************************************************************************)
C13_ListingIsolation ==
    Answered =>
        /\ (req.route = "GET /api/gp/assignments" /\ RequesterIs("gp"))
              => /\ res.status = 200
                 /\ ListsExactly(OfRequestingGp)
                 /\ Store = before
        /\ ( /\ req.route = "GET /api/gp/patients/:patientId/assignments"
             /\ RequesterIs("gp") )
              => /\ Store = before
                 /\ IF StoredPatientId(req.params.patientId)
                    THEN /\ res.status = 200
                         /\ ListsExactly({a \in OfRequestingGp :
                                            a.patientId = req.params.patientId})
                    ELSE res.status = 404
        /\ ( /\ req.route = "GET /api/patient/assignments"
             /\ "status" \notin DOMAIN req.query
             /\ RequesterIs("patient") )
              => /\ res.status = 200
                 /\ ListsExactly(OfRequestingPatient)
                 /\ Store = before

\* a GP lists its assignments while the store holds another GP's as well
C13_Witness ==
    /\ Answered
    /\ req.route = "GET /api/gp/assignments"
    /\ RequesterIs("gp")
    /\ OfRequestingGp # {}
    /\ \E a \in AssignmentSet(before.assignments) : a.gpId # Requester.id
    /\ res.status = 200
    /\ Len(res.body) < Len(before.assignments)

\* the users of a store, as a set
UserSet(us) == {us[i] : i \in 1..Len(us)}

\* email or password is missing from the body of the request
Missing(k) == k \notin DOMAIN req.body \/ Falsy(req.body[k])

\* the stored users that have the email and the password of the request
Matching ==
    {u \in UserSet(before.users) :
        u.email = req.body.email /\ u.password = req.body.password}

\* the safe representation of a user, field by field
SafeOf(u) ==
    [id |-> u.id, email |-> u.email, name |-> u.name, role |-> u.role,
     createdAt |-> u.createdAt]

(***************************************************************************)
(* C14.  Login: POST /api/auth/login is answered 400 when email or         *)
(* password is missing; otherwise 200 with the user's safe object if and   *)
(* only if a stored user has that email and that password, and 401 in      *)
(* every other case.  Login never changes the store.                       *)
(***************************************************************************)
C14_Login ==
    (Answered /\ req.route = "POST /api/auth/login")
        => /\ Store = before
           /\ IF Missing("email") \/ Missing("password")
              THEN res.status = 400
              ELSE IF Matching # {}
              THEN /\ res.status = 200
                   /\ \E u \in Matching : res.body.user = SafeOf(u)
              ELSE res.status = 401

\* the email of a stored user with a password that is not that user's
C14_Witness ==
    /\ Answered
    /\ req.route = "POST /api/auth/login"
    /\ ~Missing("email")
    /\ ~Missing("password")
    /\ \E u \in UserSet(before.users) :
            u.email = req.body.email /\ u.password # req.body.password
    /\ res.status = 401

\* the user objects a response carries
UserObjects ==
    CASE req.route = "POST /api/auth/login" /\ res.status = 200
            -> {res.body.user}
      [] req.route \in {"GET /api/auth/users", "GET /api/gp/patients"}
         /\ res.status = 200
            -> {res.body[i] : i \in 1..Len(res.body)}
      [] req.route = "GET /api/gp/assignments" /\ res.status = 200
            -> {res.body[i].patient : i \in 1..Len(res.body)}
      [] req.route = "GET /api/gp/patients/:patientId/assignments"
         /\ res.status = 200
            -> {res.body.patient}
      [] req.route = "POST /api/gp/assignments" /\ res.status = 201
            -> {res.body.assignment.patient}
      [] req.route = "PUT /api/gp/assignments/:id" /\ res.status = 200
            -> {res.body.assignment.patient}
      [] req.route = "GET /api/patient/assignments" /\ res.status = 200
            -> {res.body[i].gp : i \in 1..Len(res.body)}
      [] req.route = "GET /api/patient/assignments/:id" /\ res.status = 200
            -> {res.body.gp}
      [] OTHER -> {}

(***************************************************************************)
(* C15.  No password disclosure: every user object of a response (login,   *)
(* /api/auth/users, /api/gp/patients, the patient and gp objects of the    *)
(* assignment responses) is the safe representation of a stored user: id,  *)
(* email, name, role and createdAt, and no password.                       *)
(***************************************************************************)
C15_NoPassword ==
    Answered =>
        \A o \in UserObjects :
            /\ DOMAIN o = {"id", "email", "name", "role", "createdAt"}
            /\ \E u \in UserSet(before.users) : o = SafeOf(u)

\* a patient lists assignments, each carrying the GP who assigned it
C15_Witness ==
    /\ Answered
    /\ req.route = "GET /api/patient/assignments"
    /\ res.status = 200
    /\ UserObjects # {}
    /\ \A o \in UserObjects : o.role = "gp"

(***************************************************************************)
(* C16.  Patient summary: GET /api/patient/summary returns total, the      *)
(* number of stored assignments whose patientId is the requester, and      *)
(* active, completed and cancelled, the numbers of those with that status, *)
(* as the store is at the time of the request.                             *)
(***************************************************************************)
C16_Summary ==
    ( /\ Answered
      /\ req.route = "GET /api/patient/summary"
      /\ RequesterIs("patient") )
        => /\ res.status = 200
           /\ Store = before
           /\ res.body.total = Cardinality(OfRequestingPatient)
           /\ res.body.active =
                Cardinality({a \in OfRequestingPatient : a.status = "active"})
           /\ res.body.completed =
                Cardinality({a \in OfRequestingPatient : a.status = "completed"})
           /\ res.body.cancelled =
                Cardinality({a \in OfRequestingPatient : a.status = "cancelled"})

\* the summary of a patient with assignments of two statuses, while the
\* store has seen a write
C16_Witness ==
    /\ Answered
    /\ req.route = "GET /api/patient/summary"
    /\ RequesterIs("patient")
    /\ before.assignments # SampleAssignments
    /\ res.status = 200
    /\ res.body.total = 2
    /\ res.body.active = 1
    /\ res.body.completed + res.body.cancelled = 1

(***************************************************************************)
(* C17.  GP patient list: GET /api/gp/patients returns the safe objects of *)
(* exactly the stored users whose role is 'patient', and no user of role   *)
(* 'gp'.                                                                   *)
(***************************************************************************)
C17_PatientList ==
    ( /\ Answered
      /\ req.route = "GET /api/gp/patients"
      /\ RequesterIs("gp") )
        => /\ res.status = 200
           /\ Store = before
           /\ {res.body[i] : i \in 1..Len(res.body)}
                = {SafeOf(u) : u \in {v \in UserSet(before.users) : v.role = "patient"}}
           /\ Len(res.body)
                = Cardinality({v \in UserSet(before.users) : v.role = "patient"})
           /\ \A i \in 1..Len(res.body) : res.body[i].role # "gp"

\* a GP gets the list: the patients of the store, fewer than its users
C17_Witness ==
    /\ Answered
    /\ req.route = "GET /api/gp/patients"
    /\ RequesterIs("gp")
    /\ res.status = 200
    /\ Len(res.body) > 0
    /\ Len(res.body) < Len(before.users)

(***************************************************************************)
(* C26.  Status domain: in every reachable state of the store the status   *)
(* of each assignment is one of 'active', 'completed', 'cancelled'.        *)
(***************************************************************************)
C26_StatusDomain ==
    \A a \in AssignmentSet(assignments) :
        a.status \in {"active", "completed", "cancelled"}

\* the stored users of a role, and the ids of a sequence of stored things
UserIdsOfRole(role) == {u.id : u \in {v \in UserSet(users) : v.role = role}}

ExerciseIds == {exercises[i].id : i \in 1..Len(exercises)}

\* the stored thing of a sequence that has this id
StoredWithId(seq, id) == CHOOSE x \in {seq[i] : i \in 1..Len(seq)} : x.id = id

\* the enriched assignments a 200 or 201 response carries
EnrichedItems ==
    CASE req.route \in {"GET /api/gp/assignments",
                        "GET /api/gp/patients/:patientId/assignments",
                        "GET /api/patient/assignments"} /\ res.status = 200
            -> {ListedItems[i] : i \in 1..Len(ListedItems)}
      [] req.route = "GET /api/patient/assignments/:id" /\ res.status = 200
            -> {res.body}
      [] req.route = "POST /api/gp/assignments" /\ res.status = 201
            -> {res.body.assignment}
      [] req.route = "PUT /api/gp/assignments/:id" /\ res.status = 200
            -> {res.body.assignment}
      [] OTHER -> {}

(***************************************************************************)
(* C27.  Referential integrity: the gpId of every stored assignment is the *)
(* id of a stored user of role 'gp', its patientId the id of a stored user *)
(* of role 'patient', its exerciseId the id of a stored exercise; so the   *)
(* patient, gp and exercise an enriched assignment carries are never null: *)
(* they are that user's safe object and that exercise.                     *)
(***************************************************************************)
C27_ReferentialIntegrity ==
    /\ \A a \in AssignmentSet(assignments) :
          /\ a.gpId \in UserIdsOfRole("gp")
          /\ a.patientId \in UserIdsOfRole("patient")
          /\ a.exerciseId \in ExerciseIds
    /\ Answered =>
          \A item \in EnrichedItems :
              /\ "patient" \in DOMAIN item
                    => item.patient = SafeOf(StoredWithId(users, item.patientId))
              /\ "gp" \in DOMAIN item
                    => item.gp = SafeOf(StoredWithId(users, item.gpId))
              /\ "exercise" \in DOMAIN item
                    => item.exercise = StoredWithId(exercises, item.exerciseId)

\* a patient lists an assignment created since startup, by another GP
C27_Witness ==
    /\ Answered
    /\ req.route = "GET /api/patient/assignments"
    /\ res.status = 200
    /\ \E item \in EnrichedItems :
          /\ item.id \notin AssignmentIds(SampleAssignments)
          /\ item.gp.id = "gp2"
          /\ item.exercise.id = "ex2"

\* the ids of the assignments the request created, deleted or changed
ChangedIds ==
    {id \in AssignmentIds(before.assignments) \cup AssignmentIds(assignments) :
        \/ id \notin AssignmentIds(before.assignments)
        \/ id \notin AssignmentIds(assignments)
        \/ AssignmentOf(before.assignments, id) # AssignmentOf(assignments, id)}

IsGet == req.route \in
    {"GET /api/gp/patients", "GET /api/gp/exercises", "GET /api/gp/exercises/:id",
     "GET /api/gp/assignments", "GET /api/gp/patients/:patientId/assignments",
     "GET /api/gp/*", "GET /api/patient/assignments",
     "GET /api/patient/assignments/:id", "GET /api/patient/summary",
     "GET /api/patient/*", "GET /api/auth/users"}

(***************************************************************************)
(* C28.  Frame of the API: no request changes the users or the exercise    *)
(* catalog; a GET request and a request answered 4xx leave the whole store *)
(* unchanged; only a successful POST /api/gp/assignments, PUT or DELETE    *)
(* /api/gp/assignments/:id or PUT /api/patient/assignments/:id/complete    *)
(* changes the store, and each changes at most one assignment.             *)
(***************************************************************************)
C28_Frame ==
    /\ users = SampleUsers
    /\ exercises = SampleExercises
    /\ Answered =>
          /\ users = before.users
          /\ exercises = before.exercises
          /\ (IsGet \/ res.status \in 400..499) => Store = before
          /\ Store # before =>
                /\ req.route \in {"POST /api/gp/assignments",
                                  "PUT /api/gp/assignments/:id",
                                  "DELETE /api/gp/assignments/:id",
                                  "PUT /api/patient/assignments/:id/complete"}
                /\ res.status \in {200, 201}
          /\ Cardinality(ChangedIds) <= 1
          /\ LET Kept(a) == a.id \in AssignmentIds(assignments)
                 Old(a) == a.id \in AssignmentIds(before.assignments)
             IN [i \in 1..Len(SelectSeq(before.assignments, Kept)) |->
                    SelectSeq(before.assignments, Kept)[i].id]
                = [i \in 1..Len(SelectSeq(assignments, Old)) |->
                    SelectSeq(assignments, Old)[i].id]

\* a delete that changes the store while another assignment stays in it
C28_Witness ==
    /\ Answered
    /\ req.route = "DELETE /api/gp/assignments/:id"
    /\ res.status = 200
    /\ Len(before.assignments) >= 2
    /\ Store # before
    /\ Cardinality(ChangedIds) = 1

(***************************************************************************)
(* C29.  Patient privilege bound: a request authenticated as a patient     *)
(* changes nothing, or sets the status of one assignment whose patientId   *)
(* is that patient to 'completed', with its updatedAt; it never creates or *)
(* deletes an assignment, changes another field or changes an assignment   *)
(* of another patient.                                                     *)
(***************************************************************************)
C29_PatientPrivilege ==
    (Answered /\ RequesterIs("patient"))
        => /\ users = before.users
           /\ exercises = before.exercises
           /\ Len(assignments) = Len(before.assignments)
           /\ Cardinality(ChangedIds) <= 1
           /\ \A i \in 1..Len(assignments) :
                 LET old == before.assignments[i]
                     new == assignments[i]
                 IN \/ new = old
                    \/ /\ old.patientId = Requester.id
                       /\ new.status = "completed"
                       /\ \A k \in DOMAIN old \ {"status", "updatedAt"} :
                             new[k] = old[k]
                       /\ DOMAIN new = DOMAIN old

\* a patient completes an assignment of its own while the store holds an
\* assignment of another patient
C29_Witness ==
    /\ Answered
    /\ RequesterIs("patient")
    /\ req.route = "PUT /api/patient/assignments/:id/complete"
    /\ Store # before
    /\ \E a \in AssignmentSet(before.assignments) : a.patientId # Requester.id

(***************************************************************************)
(* The page of the frontend (public/js/app.js): currentUser, the 'hidden'  *)
(* class of the three views, and the 'currentUser' entry of localStorage.  *)
(* A page is the record of the three.                                      *)
(***************************************************************************)
\* the most calls made on the page in a run
MaxPageCalls == 5

\* JSON.stringify(value): a text that holds the value
JsonStringify(value) == [json |-> value]

\* JSON.parse(text)
JsonParse(text) == text.json

\* localStorage.setItem(key, text)
SetItem(storage, key, text) ==
    [k \in DOMAIN storage \cup {key} |-> IF k = key THEN text ELSE storage[k]]

\* localStorage.removeItem(key)
RemoveItem(storage, key) == [k \in DOMAIN storage \ {key} |-> storage[k]]

showLoginView(page) ==
    [page EXCEPT !.hidden.loginView = FALSE, !.hidden.gpView = TRUE,
                 !.hidden.patientView = TRUE]

\* showGPDashboard up to its first await: the views and no more
showGPDashboard(page) ==
    [page EXCEPT !.hidden.loginView = TRUE, !.hidden.gpView = FALSE,
                 !.hidden.patientView = TRUE]

\* showPatientDashboard without gpView.classList.add('hidden')
showPatientDashboardGpKept(page) ==
    [page EXCEPT !.hidden.loginView = TRUE, !.hidden.patientView = FALSE]

\* showPatientDashboard up to its first await
showPatientDashboard(page) ==
    [page EXCEPT !.hidden.loginView = TRUE, !.hidden.gpView = TRUE,
                 !.hidden.patientView = FALSE]

\* login(user) of app.js; the name login is the route's
appLogin(user, page) ==
    LET stored == [page EXCEPT !.currentUser = user,
                               !.localStorage =
                                    SetItem(@, "currentUser", JsonStringify(user))]
    IN IF user.role = "gp"
       THEN showGPDashboard(stored)
       ELSE showPatientDashboard(stored)

logout(page) ==
    showLoginView([page EXCEPT !.currentUser = NullUser,
                               !.localStorage = RemoveItem(@, "currentUser")])

\* setupEventListeners: the check for a saved user
setupEventListeners(page) ==
    IF "currentUser" \in DOMAIN page.localStorage
    THEN LET restored == [page EXCEPT !.currentUser =
                                JsonParse(page.localStorage["currentUser"])]
         IN IF restored.currentUser.role = "gp"
            THEN showGPDashboard(restored)
            ELSE showPatientDashboard(restored)
    ELSE page

\* the page in the browser
Page == [currentUser |-> currentUser, hidden |-> hidden, localStorage |-> localStorage]

\* what GET /api/auth/users answers loadUsers with: a button for each
UserButtons == {toSafeObject(SampleUsers[i]) : i \in 1..Len(SampleUsers)}

\* The 'hidden' classes the markup of index.html gives the three views; the
\* markup is not among the sources, so any.
MarkupInputs == [loginView : BOOLEAN, gpView : BOOLEAN, patientView : BOOLEAN]

\* the browser is opened: no page loaded yet, the server idle
FrontendInit ==
    /\ NoPage
    /\ NoEvaluator
    /\ hold_duration = 0
    /\ counter = RepetitionCounter
    /\ calls = << >>
    /\ users = SampleUsers
    /\ exercises = SampleExercises
    /\ assignments = SampleAssignments
    /\ uuids = Len(SampleAssignments)
    /\ now = BootTime + 1
    /\ req = NoRequest
    /\ res = NoResponse
    /\ before = [users |-> SampleUsers, exercises |-> SampleExercises,
                 assignments |-> SampleAssignments]
    /\ deleted = {}

\* the page takes the state new after a call
PageStep(call, new) ==
    /\ Len(pageCalls) < MaxPageCalls
    /\ currentUser' = new.currentUser
    /\ hidden' = new.hidden
    /\ localStorage' = new.localStorage
    /\ pageCalls' = Append(pageCalls, call)
    /\ UNCHANGED <<apiVars, engineVars, evaluatorVars>>

\* The page is loaded or reloaded: the script starts with currentUser null
\* and the views as the markup has them, then DOMContentLoaded fires.
LoadPage ==
    \E markup \in MarkupInputs :
        PageStep("load",
                 setupEventListeners([currentUser |-> NullUser, hidden |-> markup,
                                      localStorage |-> localStorage]))

\* a click on the button of a user
LoginClick ==
    \E user \in UserButtons :
        /\ pageCalls # << >>
        /\ PageStep("login", appLogin(user, Page))

\* a click on a logout button
LogoutClick ==
    /\ pageCalls # << >>
    /\ PageStep("logout", logout(Page))

FrontendNext ==
    \/ LoadPage
    \/ LoginClick
    \/ LogoutClick

FrontendSpec == FrontendInit /\ [][FrontendNext]_vars

\* a page is loaded and login, logout or the restore of a saved user has
\* set its views
ViewsSet ==
    /\ pageCalls # << >>
    /\ \/ pageCalls[Len(pageCalls)] # "load"
       \/ "currentUser" \in DOMAIN localStorage

(***************************************************************************)
(* C30.  Frontend view state: after any sequence of login(user) and        *)
(* logout() calls (and after a page load that restores a saved user)       *)
(* exactly one of the login view, GP view and patient view is not hidden:  *)
(* the login view exactly when currentUser is null, the GP view exactly    *)
(* when currentUser.role is 'gp', the patient view otherwise; localStorage *)
(* holds a 'currentUser' entry exactly when currentUser is not null.       *)
(***************************************************************************)
C30_ViewState ==
    /\ ViewsSet =>
          /\ Cardinality({v \in DOMAIN hidden : ~hidden[v]}) = 1
          /\ ~hidden.loginView <=> currentUser = NullUser
          /\ ~hidden.gpView <=> (currentUser # NullUser /\ currentUser.role = "gp")
          /\ ~hidden.patientView <=> (currentUser # NullUser /\ currentUser.role # "gp")
    /\ pageCalls # << >> =>
          ("currentUser" \in DOMAIN localStorage <=> currentUser # NullUser)

\* a GP logs in, then a patient without a logout between; the page is
\* reloaded and restores the patient
C30_Witness ==
    /\ pageCalls = <<"load", "login", "login", "load">>
    /\ currentUser # NullUser
    /\ currentUser.role = "patient"
    /\ ~hidden.patientView
    /\ hidden.gpView

(***************************************************************************)
(* The repetition counter (specification 4.3 and 5).  Time is counted in   *)
(* tenths of a second: a hold_duration of 2.0 s is 20.                     *)
(*                                                                         *)
(* The phases: WAITING_FOR_CORRECT -> HOLDING -> (correctness sustained    *)
(* for hold_duration or longer) -> COUNTED -> WAITING_FOR_CORRECT once the *)
(* angle has left the correct zone.                                        *)
(***************************************************************************)
\* the most observe and reset calls of a session
MaxFrames == 4

\* the configured hold durations: none (edge-triggered), 2.0 s
HoldDurations == {0, 20}

\* the timestamps frames come with: 0 s, 1.9 s, 2.0 s, 10 s
Timestamps == {0, 19, 20, 100}

\* The time the counter takes an observation to be made at: a timestamp
\* before the last one makes no hold progress, and no negative hold time.
Clock(c, timestamp) ==
    IF timestamp < c.last_timestamp THEN c.last_timestamp ELSE timestamp

\* observe with the whole counter cleared when the angle leaves the zone
observeClearOnLeave(c, hold, is_correct, timestamp) ==
    LET t == Clock(c, timestamp)
        start == IF c.phase = "WAITING_FOR_CORRECT" THEN t ELSE c.hold_start
    IN IF ~is_correct
       THEN [counter |-> [RepetitionCounter EXCEPT !.last_timestamp = t],
             emitted_rep |-> FALSE]
       ELSE IF c.phase = "COUNTED"
       THEN [counter |-> [c EXCEPT !.last_timestamp = t], emitted_rep |-> FALSE]
       ELSE IF t - start >= hold
       THEN [counter |-> [phase |-> "COUNTED", hold_start |-> start,
                          last_timestamp |-> t, count |-> c.count + 1],
             emitted_rep |-> TRUE]
       ELSE [counter |-> [phase |-> "HOLDING", hold_start |-> start,
                          last_timestamp |-> t, count |-> c.count],
             emitted_rep |-> FALSE]

\* observe counting only when the hold has lasted longer than hold_duration
observeStrictlyLonger(c, hold, is_correct, timestamp) ==
    LET t == Clock(c, timestamp)
        start == IF c.phase = "WAITING_FOR_CORRECT" THEN t ELSE c.hold_start
    IN IF ~is_correct
       THEN [counter |-> [c EXCEPT !.phase = "WAITING_FOR_CORRECT",
                                   !.last_timestamp = t],
             emitted_rep |-> FALSE]
       ELSE IF c.phase = "COUNTED"
       THEN [counter |-> [c EXCEPT !.last_timestamp = t], emitted_rep |-> FALSE]
       ELSE IF t - start > hold
       THEN [counter |-> [phase |-> "COUNTED", hold_start |-> start,
                          last_timestamp |-> t, count |-> c.count + 1],
             emitted_rep |-> TRUE]
       ELSE [counter |-> [phase |-> "HOLDING", hold_start |-> start,
                          last_timestamp |-> t, count |-> c.count],
             emitted_rep |-> FALSE]

\* observe without the COUNTED phase: a counted hold starts the next one
observeNoHysteresis(c, hold, is_correct, timestamp) ==
    LET t == Clock(c, timestamp)
        start == IF c.phase = "HOLDING" THEN c.hold_start ELSE t
    IN IF ~is_correct
       THEN [counter |-> [c EXCEPT !.phase = "WAITING_FOR_CORRECT",
                                   !.last_timestamp = t],
             emitted_rep |-> FALSE]
       ELSE IF t - start >= hold
       THEN [counter |-> [phase |-> "COUNTED", hold_start |-> start,
                          last_timestamp |-> t, count |-> c.count + 1],
             emitted_rep |-> TRUE]
       ELSE [counter |-> [phase |-> "HOLDING", hold_start |-> start,
                          last_timestamp |-> t, count |-> c.count],
             emitted_rep |-> FALSE]

\* observe(is_correct, timestamp) -> emitted_rep, on counter c configured
\* with hold_duration hold: the counter after the call and what it returns
observe(c, hold, is_correct, timestamp) ==
    LET t == Clock(c, timestamp)
        start == IF c.phase = "WAITING_FOR_CORRECT" THEN t ELSE c.hold_start
    IN IF ~is_correct
       THEN [counter |-> [c EXCEPT !.phase = "WAITING_FOR_CORRECT",
                                   !.last_timestamp = t],
             emitted_rep |-> FALSE]
       ELSE IF c.phase = "COUNTED"
       THEN [counter |-> [c EXCEPT !.last_timestamp = t], emitted_rep |-> FALSE]
       ELSE IF t - start >= hold
       THEN [counter |-> [phase |-> "COUNTED", hold_start |-> start,
                          last_timestamp |-> t, count |-> c.count + 1],
             emitted_rep |-> TRUE]
       ELSE [counter |-> [phase |-> "HOLDING", hold_start |-> start,
                          last_timestamp |-> t, count |-> c.count],
             emitted_rep |-> FALSE]

\* the counter after a reset of the session
reset(c) == RepetitionCounter

\* a counter is created for a session with some hold_duration
CounterInit ==
    /\ hold_duration \in HoldDurations
    /\ counter = RepetitionCounter
    /\ calls = << >>
    /\ users = SampleUsers
    /\ exercises = SampleExercises
    /\ assignments = SampleAssignments
    /\ uuids = Len(SampleAssignments)
    /\ now = BootTime + 1
    /\ req = NoRequest
    /\ res = NoResponse
    /\ before = [users |-> SampleUsers, exercises |-> SampleExercises,
                 assignments |-> SampleAssignments]
    /\ deleted = {}
    /\ NoEvaluator
    /\ NoPage

\* the evaluator feeds one frame's judgment into the counter
Observe ==
    \E is_correct \in BOOLEAN, timestamp \in Timestamps :
        LET out == observe(counter, hold_duration, is_correct, timestamp)
        IN /\ Len(calls) < MaxFrames
           /\ counter' = out.counter
           /\ calls' = Append(calls,
                  [op |-> "observe", is_correct |-> is_correct,
                   timestamp |-> timestamp, emitted_rep |-> out.emitted_rep,
                   total |-> out.counter.count])
           /\ UNCHANGED hold_duration
           /\ UNCHANGED <<apiVars, evaluatorVars, frontendVars>>

\* the session is reset
Reset ==
    /\ Len(calls) < MaxFrames
    /\ counter' = reset(counter)
    /\ calls' = Append(calls,
          [op |-> "reset", is_correct |-> FALSE, timestamp |-> 0,
           emitted_rep |-> FALSE, total |-> reset(counter).count])
    /\ UNCHANGED hold_duration
    /\ UNCHANGED <<apiVars, evaluatorVars, frontendVars>>

CounterNext ==
    \/ Observe
    \/ Reset

CounterSpec == CounterInit /\ [][CounterNext]_vars

(***************************************************************************)
(* What the properties of the counter speak of, read off the calls made    *)
(* and what each returned.                                                 *)
(***************************************************************************)
\* the total of counted repetitions after the i-th call; 0 before the first
Total(i) == IF i = 0 THEN 0 ELSE calls[i].total

\* the i-th call is an observation judged correct
IsCorrect(i) == calls[i].op = "observe" /\ calls[i].is_correct

\* the i-th call is an observation judged incorrect
IsIncorrect(i) == calls[i].op = "observe" /\ ~calls[i].is_correct

\* the calls i..j are a run of consecutive correct observations from its start
Run(i, j) ==
    /\ i <= j
    /\ \A k \in i..j : IsCorrect(k)
    /\ i = 1 \/ ~IsCorrect(i - 1)

\* the timestamps never decrease from one frame to the next
WellTimed ==
    \A k \in 2..Len(calls) :
        (calls[k].op = "observe" /\ calls[k - 1].op = "observe")
            => calls[k - 1].timestamp <= calls[k].timestamp

\* the last reset among the first j calls; 0 if there is none
LastReset(j) ==
    IF \E k \in 1..j : calls[k].op = "reset"
    THEN CHOOSE k \in 1..j :
            /\ calls[k].op = "reset"
            /\ \A m \in (k + 1)..j : calls[m].op # "reset"
    ELSE 0

(***************************************************************************)
(* C18.  Repetition monotonicity: over any sequence of observe calls the   *)
(* total of counted repetitions never decreases, and it returns to 0 only  *)
(* on an explicit reset, which does set it to 0.                           *)
(***************************************************************************)
C18_Monotonic ==
    /\ counter.count = Total(Len(calls))
    /\ \A i \in 1..Len(calls) :
        /\ calls[i].op = "observe" => Total(i) >= Total(i - 1)
        /\ calls[i].op = "reset" => Total(i) = 0
        /\ Total(i) < Total(i - 1) => calls[i].op = "reset"

\* a repetition is counted, the angle leaves the zone, the session is reset
C18_Witness ==
    /\ Len(calls) = 4
    /\ Total(2) = 1
    /\ IsIncorrect(3)
    /\ Total(3) = 1
    /\ calls[4].op = "reset"
    /\ counter.count = 0

(***************************************************************************)
(* C19.  Hold-duration counting: with hold_duration 2.0 s and timestamps   *)
(* that never decrease, a run of consecutive correct observations counts   *)
(* no repetition while its span is below 2.0 s and exactly one once the    *)
(* span has reached 2.0 s, however long correctness is then held; the      *)
(* incorrect observation that ends the run counts nothing.                 *)
(***************************************************************************)
C19_HoldDuration ==
    (hold_duration = 20 /\ WellTimed)
        => \A i \in 1..Len(calls) : \A j \in i..Len(calls) :
              Run(i, j)
                => /\ Total(j) - Total(i - 1) =
                        IF calls[j].timestamp - calls[i].timestamp >= 20
                        THEN 1 ELSE 0
                   /\ (j < Len(calls) /\ IsIncorrect(j + 1))
                        => Total(j + 1) = Total(j)

\* correctness held from 0 s over 2.0 s to 10 s, then broken: one repetition
C19_Witness ==
    /\ hold_duration = 20
    /\ WellTimed
    /\ Len(calls) = 4
    /\ Run(1, 3)
    /\ calls[1].timestamp = 0
    /\ calls[2].timestamp = 20
    /\ calls[3].timestamp = 100
    /\ IsIncorrect(4)
    /\ counter.count = 1

\* the i-th call is a correct observation right after an incorrect one
IncorrectToCorrect(i) == i > 1 /\ IsIncorrect(i - 1) /\ IsCorrect(i)

\* the i-th call is a correct observation that no correct one goes before:
\* right after an incorrect one, or the first of the session or after a reset
EntersCorrect(i) == IsCorrect(i) /\ (i = 1 \/ ~IsCorrect(i - 1))

(***************************************************************************)
(* C20, as stated.  Edge-triggered counting: when hold_duration is 0 the   *)
(* count equals the number of incorrect-to-correct transitions (since the  *)
(* last reset).                                                            *)
(***************************************************************************)
C20_CountIsTransitions ==
    hold_duration = 0
        => \A j \in 1..Len(calls) :
              Total(j) = Cardinality({i \in (LastReset(j) + 1)..j :
                                        IncorrectToCorrect(i)})

(***************************************************************************)
(* C20, amended.  When hold_duration is 0, an observation counts one       *)
(* repetition, on that frame, exactly when it is correct and comes right   *)
(* after an incorrect one, or is the first observation of the session or   *)
(* after a reset; after a repetition is counted none is counted until an   *)
(* incorrect observation (or a reset) has occurred.  The count is the      *)
(* number of incorrect-to-correct transitions, a correct first observation *)
(* counting as one.                                                        *)
(***************************************************************************)
C20_EdgeTriggered ==
    hold_duration = 0
        => \A j \in 1..Len(calls) :
              /\ IncorrectToCorrect(j) => calls[j].emitted_rep
              /\ calls[j].emitted_rep <=> EntersCorrect(j)
              /\ calls[j].emitted_rep <=> Total(j) = Total(j - 1) + 1
              /\ \A i \in 1..(j - 1) :
                    (calls[i].emitted_rep /\ calls[j].emitted_rep)
                        => \E k \in (i + 1)..(j - 1) : ~IsCorrect(k)
              /\ Total(j) = Cardinality({i \in (LastReset(j) + 1)..j :
                                            EntersCorrect(i)})

\* correct, correct again, incorrect, correct: two repetitions
C20_Witness ==
    /\ hold_duration = 0
    /\ Len(calls) = 4
    /\ IsCorrect(1)
    /\ IsCorrect(2)
    /\ IsIncorrect(3)
    /\ IsCorrect(4)
    /\ counter.count = 2

(***************************************************************************)
(* The exercise evaluator (specification 3, 4.1, 4.2, 4.4, 4.5, 6 and 7).  *)
(* Angles are whole degrees, visibilities tenths, times tenths of a        *)
(* second, positions thousandths of the image.  Angles are computed in     *)
(* 2-D.                                                                    *)
(***************************************************************************)
\* the most readings of the clock in a run of the evaluator
MaxEvalClock == 5

\* the most frames the usage loop feeds a session
MaxUsageFrames == 6

\* the time between two readings of the clock: 1.0 s
TickLength == 10

\* the fixed visibility threshold, 0.5
VisibilityThreshold == 5

\* the six identifiers
ExerciseNames ==
    {"shoulder_flexion", "shoulder_abduction", "elbow_flexion",
     "knee_flexion", "hip_flexion", "hip_abduction"}

\* landmarks_for(side) of a variant: first ray endpoint, vertex, second ray
\* endpoint.  The specification fixes no triple; these are the joints each
\* movement turns about.
landmarks_for(variant, side) ==
    CASE variant = "shoulder_flexion" ->
            << side \o "_hip", side \o "_shoulder",
               side \o "_elbow" >>
      [] variant = "shoulder_abduction" ->
            << side \o "_hip", side \o "_shoulder",
               side \o "_wrist" >>
      [] variant = "elbow_flexion" ->
            << side \o "_shoulder", side \o "_elbow",
               side \o "_wrist" >>
      [] variant = "knee_flexion" ->
            << side \o "_hip", side \o "_knee",
               side \o "_ankle" >>
      [] variant = "hip_flexion" ->
            << side \o "_shoulder", side \o "_hip",
               side \o "_knee" >>
      [] variant = "hip_abduction" ->
            << side \o "_shoulder", side \o "_hip",
               side \o "_ankle" >>

\* ---- geometry (4.1) ----
Vector(x, y) == [x |-> x, y |-> y]

\* atan2 in whole degrees, for the directions the poses below take
Atan2Table ==
    { [v |-> Vector(0, 1000), degrees |-> 90],
      [v |-> Vector(174, 985), degrees |-> 80],
      [v |-> Vector(766, 643), degrees |-> 40],
      [v |-> Vector(985, 174), degrees |-> 10],
      [v |-> Vector(1000, 0), degrees |-> 0],
      [v |-> Vector(1000, -17), degrees |-> -1],
      [v |-> Vector(999, -35), degrees |-> -2],
      [v |-> Vector(-174, -985), degrees |-> -100] }

atan2(v) == (CHOOSE d \in Atan2Table : d.v = v).degrees

Abs(n) == IF n < 0 THEN -n ELSE n

\* The unsigned angle at B between the rays to A and to C, in [0,180]; a
\* ray of no length fails with DegenerateGeometry.
calculate_angle(A, B, C) ==
    LET BA == Vector(A.x - B.x, A.y - B.y)
        BC == Vector(C.x - B.x, C.y - B.y)
        signed == atan2(BC) - atan2(BA)
    IN IF BA = Vector(0, 0) \/ BC = Vector(0, 0)
       THEN [ok |-> FALSE, condition |-> "DegenerateGeometry"]
       ELSE [ok |-> TRUE,
             angle |-> IF Abs(signed) > 180 THEN 360 - Abs(signed)
                       ELSE Abs(signed)]

\* ---- exercise configuration (3) ----
NoRange == [set |-> FALSE]

Range(min_angle, max_angle) ==
    [set |-> TRUE, min_angle |-> min_angle, max_angle |-> max_angle]

ExerciseConfig(target_angle, tolerance, range, hold, side) ==
    [target_angle |-> target_angle, tolerance |-> tolerance, range |-> range,
     hold_duration |-> hold, target_reps |-> 10, side |-> side]

\* the invariants of a configuration
ValidConfig(config) ==
    /\ config.tolerance >= 0
    /\ config.hold_duration >= 0
    /\ config.side \in {"left", "right"}
    /\ config.range.set => config.range.min_angle < config.range.max_angle

\* ---- exercise definitions (4.2) ----
\* evaluate with the range tested only where the target test fails
evaluateTargetFirst(variant, angle, config) ==
    IF Abs(angle - config.target_angle) <= config.tolerance
    THEN [is_correct |-> TRUE, reason |-> "ON_TARGET"]
    ELSE IF config.range.set
    THEN IF config.range.min_angle <= angle /\ angle <= config.range.max_angle
         THEN [is_correct |-> TRUE, reason |-> "ON_TARGET"]
         ELSE [is_correct |-> FALSE, reason |-> "OUT_OF_RANGE"]
    ELSE IF angle < config.target_angle
    THEN [is_correct |-> FALSE, reason |-> "TOO_LOW"]
    ELSE [is_correct |-> FALSE, reason |-> "TOO_HIGH"]

\* evaluate(angle, config) of a variant -> (is_correct, reason): one rule
\* for the six
evaluate(variant, angle, config) ==
    IF config.range.set
    THEN IF config.range.min_angle <= angle /\ angle <= config.range.max_angle
         THEN [is_correct |-> TRUE, reason |-> "ON_TARGET"]
         ELSE [is_correct |-> FALSE, reason |-> "OUT_OF_RANGE"]
    ELSE IF Abs(angle - config.target_angle) <= config.tolerance
    THEN [is_correct |-> TRUE, reason |-> "ON_TARGET"]
    ELSE IF angle < config.target_angle
    THEN [is_correct |-> FALSE, reason |-> "TOO_LOW"]
    ELSE [is_correct |-> FALSE, reason |-> "TOO_HIGH"]

\* ---- feedback composer (4.4) ----
\* The deviation the bands are held against: from the target, or with a
\* range from the nearer end of it, none inside.  (Of an angle on target
\* the second testable property wants EXCELLENT, so from the target.)
Deviation(angle, config) ==
    IF config.range.set
    THEN IF angle < config.range.min_angle THEN config.range.min_angle - angle
         ELSE IF angle > config.range.max_angle THEN angle - config.range.max_angle
         ELSE 0
    ELSE Abs(angle - config.target_angle)

\* the band of a deviation against tolerance T, each band's end included
Level(deviation, T) ==
    IF 4 * deviation <= T THEN "EXCELLENT"
    ELSE IF 2 * deviation <= T THEN "GOOD"
    ELSE IF deviation <= T THEN "NEEDS_IMPROVEMENT"
    ELSE "INCORRECT"

\* The score, linear within the band: 100..90, 90..75, 75..50, and from 50
\* down a point a degree to 0 (the specification leaves the slope open).
Score(deviation, T) ==
    IF 4 * deviation <= T
    THEN IF T = 0 THEN 100 ELSE 100 - (40 * deviation) \div T
    ELSE IF 2 * deviation <= T THEN 105 - (60 * deviation) \div T
    ELSE IF deviation <= T THEN 100 - (50 * deviation) \div T
    ELSE IF 50 - (deviation - T) < 0 THEN 0
    ELSE 50 - (deviation - T)

compose_feedback(judgment, angle, config) ==
    [level |-> Level(Deviation(angle, config), config.tolerance),
     score |-> Score(Deviation(angle, config), config.tolerance),
     angle |-> angle, target_angle |-> config.target_angle,
     corrections |->
        CASE judgment.reason = "TOO_LOW" -> << "raise further" >>
          [] judgment.reason = "TOO_HIGH" -> << "lower slightly" >>
          [] judgment.reason = "OUT_OF_RANGE" -> << "return to the range" >>
          [] judgment.reason = "ON_TARGET" -> << >>,
     is_correct |-> judgment.is_correct]

\* the feedback of a frame whose landmarks cannot be trusted
ErrorFeedback(condition, config) ==
    [level |-> "ERROR", score |-> 0, condition |-> condition,
     target_angle |-> config.target_angle, corrections |-> << >>,
     is_correct |-> FALSE]

\* ---- exercise evaluator (4.5) ----
\* set_exercise(variant, config)
set_exercise(s, variant, config) ==
    IF ValidConfig(config)
    THEN [session |-> [NewSession EXCEPT !.exercise =
                          [bound |-> TRUE, variant |-> variant, config |-> config]],
          outcome |-> [op |-> "set_exercise_by_name", result |-> "ok"]]
    ELSE [session |-> s,
          outcome |-> [op |-> "set_exercise_by_name",
                       result |-> "InvalidConfiguration"]]

\* set_exercise_by_name(name, config)
set_exercise_by_name(s, name, config) ==
    IF name \in ExerciseNames
    THEN set_exercise(s, name, config)
    ELSE [session |-> s,
          outcome |-> [op |-> "set_exercise_by_name",
                       result |-> "UnknownExercise"]]

\* start_session zeroing the counters and recording the time on every call
start_sessionRestart(s, time) ==
    [session |-> [s EXCEPT !.started = TRUE, !.start_time = time,
                           !.counter = RepetitionCounter,
                           !.score_history = << >>],
     outcome |-> [op |-> "start_session", result |-> "ok"]]

\* start_session(), called at time
start_session(s, time) ==
    IF s.started
    THEN [session |-> s, outcome |-> [op |-> "start_session", result |-> "ok"]]
    ELSE [session |-> [s EXCEPT !.started = TRUE, !.start_time = time,
                                !.counter = RepetitionCounter,
                                !.score_history = << >>],
          outcome |-> [op |-> "start_session", result |-> "ok"]]

\* a landmark of the triple is absent from the set or not visible enough
NotVisible(landmarks, triple) ==
    \E i \in 1..3 :
        \/ triple[i] \notin DOMAIN landmarks
        \/ landmarks[triple[i]].visibility < VisibilityThreshold

\* evaluate_frame of a started session with an exercise bound, to be
\* completed by the score of an error frame
EvaluateBound(s, landmarks, time, error_scores) ==
    LET config == s.exercise.config
        triple == landmarks_for(s.exercise.variant, config.side)
        measured == calculate_angle(landmarks[triple[1]], landmarks[triple[2]],
                                    landmarks[triple[3]])
        judgment == evaluate(s.exercise.variant, measured.angle, config)
        observed == observe(s.counter, config.hold_duration,
                            judgment.is_correct, time)
        feedback == compose_feedback(judgment, measured.angle, config)
        failed == [s EXCEPT !.score_history = @ \o error_scores]
    IN IF NotVisible(landmarks, triple)
       THEN [session |-> failed,
             outcome |-> [op |-> "evaluate_frame", result |-> "feedback",
                          frame |-> landmarks,
                          feedback |-> ErrorFeedback("InvalidConfiguration", config)]]
       ELSE IF ~measured.ok
       THEN [session |-> failed,
             outcome |-> [op |-> "evaluate_frame", result |-> "feedback",
                          frame |-> landmarks,
                          feedback |-> ErrorFeedback(measured.condition, config)]]
       ELSE [session |-> [s EXCEPT !.counter = observed.counter,
                                   !.score_history = Append(@, feedback.score)],
             outcome |-> [op |-> "evaluate_frame", result |-> "feedback",
                          frame |-> landmarks, feedback |-> feedback]]

\* evaluate_frame with the score 0 of an error frame put in the history
evaluate_frameErrorScored(s, landmarks, time) ==
    IF ~s.exercise.bound \/ ~s.started
    THEN [session |-> s,
          outcome |-> [op |-> "evaluate_frame", result |-> "InvalidState"]]
    ELSE EvaluateBound(s, landmarks, time, << 0 >>)

\* evaluate_frame starting the session it finds not started before it fails
evaluate_frameStarting(s, landmarks, time) ==
    IF ~s.exercise.bound \/ ~s.started
    THEN [session |-> [s EXCEPT !.started = TRUE],
          outcome |-> [op |-> "evaluate_frame", result |-> "InvalidState"]]
    ELSE EvaluateBound(s, landmarks, time, << >>)

\* evaluate_frame(landmark_set), called at time
evaluate_frame(s, landmarks, time) ==
    IF ~s.exercise.bound \/ ~s.started
    THEN [session |-> s,
          outcome |-> [op |-> "evaluate_frame", result |-> "InvalidState"]]
    ELSE EvaluateBound(s, landmarks, time, << >>)

RECURSIVE SumOf(_)
SumOf(scores) ==
    IF scores = << >> THEN 0 ELSE scores[1] + SumOf(Tail(scores))

\* get_session_summary(), called at time
get_session_summary(s, time) ==
    [session |-> s,
     outcome |-> [op |-> "get_session_summary", result |-> "summary",
                  summary |->
                     [total_reps |-> s.counter.count,
                      average_score |->
                          IF s.score_history = << >> THEN 0
                          ELSE SumOf(s.score_history) \div Len(s.score_history),
                      duration |-> IF s.started THEN time - s.start_time ELSE 0,
                      exercise |-> IF s.exercise.bound THEN s.exercise.variant
                                   ELSE ""]]]

\* reset_session(): the state after set_exercise
reset_session(s) ==
    [session |-> [NewSession EXCEPT !.exercise = s.exercise],
     outcome |-> [op |-> "reset_session", result |-> "ok"]]

\* ---- what the evaluator is called with ----
\* The left arm held at some degrees from the trunk: the hip straight
\* below the shoulder, the elbow a unit from it; all seen well.
LeftArmAt(elbow) ==
    [name \in {"left_hip", "left_shoulder", "left_elbow"} |->
        CASE name = "left_hip" -> [x |-> 500, y |-> 1300, visibility |-> 10]
          [] name = "left_shoulder" -> [x |-> 500, y |-> 300, visibility |-> 10]
          [] name = "left_elbow" ->
                [x |-> 500 + elbow.x, y |-> 300 + elbow.y, visibility |-> 9]]

\* the poses of angle 10, 50, 90, 91 and 92
UsagePoses ==
    { LeftArmAt(Vector(174, 985)), LeftArmAt(Vector(766, 643)),
      LeftArmAt(Vector(1000, 0)), LeftArmAt(Vector(1000, -17)),
      LeftArmAt(Vector(999, -35)) }


\* the elbow seen with visibility 0.1
LowVisibilityFrame ==
    [LeftArmAt(Vector(1000, 0)) EXCEPT !["left_elbow"].visibility = 1]

\* the elbow put where the shoulder is
DegenerateFrame == LeftArmAt(Vector(0, 0))

\* the poses of angle 50, 80 and 90 and the two above
FrameInputs ==
    { LeftArmAt(Vector(766, 643)), LeftArmAt(Vector(985, 174)),
      LeftArmAt(Vector(1000, 0)), LowVisibilityFrame, DegenerateFrame }

\* target 90, tolerance 15, left, no hold
ScenarioConfig == ExerciseConfig(90, 15, NoRange, 0, "left")

ConfigInputs ==
    { ScenarioConfig,
      ExerciseConfig(90, 15, Range(80, 95), 20, "left"),
      ExerciseConfig(90, 15, NoRange, 0, "right"),
      ExerciseConfig(90, -1, NoRange, 0, "left"),
      ExerciseConfig(90, 15, Range(95, 45), 0, "left") }

\* the time on the clock
Time == clock * TickLength

\* an evaluator is created
EvaluatorInit ==
    /\ NoEvaluator
    /\ NoPage
    /\ hold_duration = 0
    /\ counter = RepetitionCounter
    /\ calls = << >>
    /\ users = SampleUsers
    /\ exercises = SampleExercises
    /\ assignments = SampleAssignments
    /\ uuids = Len(SampleAssignments)
    /\ now = BootTime + 1
    /\ req = NoRequest
    /\ res = NoResponse
    /\ before = [users |-> SampleUsers, exercises |-> SampleExercises,
                 assignments |-> SampleAssignments]
    /\ deleted = {}

\* the evaluator takes the state and answers as out says, after ticks
\* readings of the clock
EvaluatorStep(out, ticks) ==
    /\ session' = out.session
    /\ outcome' = out.outcome
    /\ clock' = clock + ticks
    /\ UNCHANGED <<apiVars, frontendVars, engineVars>>

SetExerciseByName ==
    \E name \in {"shoulder_flexion", "knee_flexion", "squat"},
       config \in ConfigInputs :
        EvaluatorStep(set_exercise_by_name(session, name, config), 0)

StartSession ==
    /\ clock < MaxEvalClock
    /\ EvaluatorStep(start_session(session, Time), 1)

EvaluateFrame ==
    \E landmarks \in FrameInputs :
        /\ clock < MaxEvalClock
        /\ EvaluatorStep(evaluate_frame(session, landmarks, Time), 1)

GetSessionSummary ==
    /\ clock < MaxEvalClock
    /\ EvaluatorStep(get_session_summary(session, Time), 1)

ResetSession == EvaluatorStep(reset_session(session), 0)

EvaluatorNext ==
    \/ SetExerciseByName
    \/ StartSession
    \/ EvaluateFrame
    \/ GetSessionSummary
    \/ ResetSession

EvaluatorSpec == EvaluatorInit /\ [][EvaluatorNext]_vars

(***************************************************************************)
(* The basic usage of the README: an exercise is set by name with a        *)
(* configuration, the session is started, then the frames of the video     *)
(* are evaluated one after the other.  calls keeps what each frame was     *)
(* answered with.                                                          *)
(***************************************************************************)
\* evaluator.set_exercise_by_name('shoulder_flexion', config)
UsageSetExercise ==
    /\ outcome = [op |-> "none"]
    /\ EvaluatorStep(set_exercise_by_name(session, "shoulder_flexion",
                                          ScenarioConfig), 0)

\* evaluator.start_session()
UsageStartSession ==
    /\ session.exercise.bound
    /\ ~session.started
    /\ EvaluatorStep(start_session(session, Time), 0)

\* the loop: a frame of the video is evaluated
UsageEvaluateFrame ==
    \E landmarks \in UsagePoses :
        LET out == evaluate_frame(session, landmarks, Time)
        IN /\ session.started
           /\ Len(calls) < MaxUsageFrames
           /\ session' = out.session
           /\ outcome' = out.outcome
           /\ clock' = clock + 1
           /\ calls' = Append(calls, out.outcome.feedback)
           /\ UNCHANGED <<apiVars, frontendVars, hold_duration, counter>>

UsageNext ==
    \/ UsageSetExercise
    \/ UsageStartSession
    \/ UsageEvaluateFrame

UsageSpec == EvaluatorInit /\ [][UsageNext]_vars

(***************************************************************************)
(* The exercise definitions on their own: a variant is asked to evaluate   *)
(* an angle against a configuration.                                       *)
(***************************************************************************)
\* target 90 with tolerance 0 or 15 and no range, a range about the target
\* or a range off it
RuleConfigInputs ==
    { ExerciseConfig(90, T, range, 0, "left") :
        T \in {0, 15}, range \in {NoRange, Range(45, 95), Range(100, 120)} }

DefinitionInit ==
    /\ outcome \in { [op |-> "input", variant |-> variant, angle |-> angle,
                      config |-> config] :
                        variant \in ExerciseNames,
                        angle \in {44, 45, 75, 76, 90, 95, 96, 100, 105, 106,
                                   120, 121},
                        config \in RuleConfigInputs }
    /\ session = NewSession
    /\ clock = 0
    /\ NoPage
    /\ hold_duration = 0
    /\ counter = RepetitionCounter
    /\ calls = << >>
    /\ users = SampleUsers
    /\ exercises = SampleExercises
    /\ assignments = SampleAssignments
    /\ uuids = Len(SampleAssignments)
    /\ now = BootTime + 1
    /\ req = NoRequest
    /\ res = NoResponse
    /\ before = [users |-> SampleUsers, exercises |-> SampleExercises,
                 assignments |-> SampleAssignments]
    /\ deleted = {}

\* the variant evaluates the angle
Evaluate ==
    /\ outcome.op = "input"
    /\ outcome' = [op |-> "evaluate", variant |-> outcome.variant,
                   angle |-> outcome.angle, config |-> outcome.config,
                   judgment |-> evaluate(outcome.variant, outcome.angle,
                                         outcome.config)]
    /\ UNCHANGED <<session, clock>>
    /\ UNCHANGED <<apiVars, frontendVars, engineVars>>

DefinitionSpec == DefinitionInit /\ [][Evaluate]_vars

(***************************************************************************)
(* What the properties of the evaluator speak of.                          *)
(***************************************************************************)
\* the landmarks the exercise bound to session s needs
Required(s) == landmarks_for(s.exercise.variant, s.exercise.config.side)

\* a needed landmark is in the frame with visibility below the threshold
LowVisibility(frame, s) ==
    \E i \in 1..3 :
        /\ Required(s)[i] \in DOMAIN frame
        /\ frame[Required(s)[i]].visibility < VisibilityThreshold

\* the needed landmarks are in the frame, an end of a ray on the vertex
Degenerate(frame, s) ==
    /\ \A i \in 1..3 : Required(s)[i] \in DOMAIN frame
    /\ \E i \in {1, 3} :
          /\ frame[Required(s)[i]].x = frame[Required(s)[2]].x
          /\ frame[Required(s)[i]].y = frame[Required(s)[2]].y

\* this step is a call of op that read the clock
Called(op) == outcome'.op = op /\ clock' = clock + 1

(***************************************************************************)
(* C21.  Error frames are recovered locally: when a landmark the bound     *)
(* exercise and side need has visibility below the threshold, or the       *)
(* geometry is degenerate, evaluate_frame returns feedback of level ERROR, *)
(* the session continues, and the repetition count, the counter phase and  *)
(* the score history are exactly as before the call.                       *)
(***************************************************************************)
C21_Step ==
    ( /\ Called("evaluate_frame")
      /\ session.exercise.bound
      /\ session.started
      /\ \/ LowVisibility(outcome'.frame, session)
         \/ Degenerate(outcome'.frame, session) )
    => /\ outcome'.result = "feedback"
       /\ outcome'.feedback.level = "ERROR"
       /\ session'.started
       /\ session'.exercise = session.exercise
       /\ session'.counter.count = session.counter.count
       /\ session'.counter.phase = session.counter.phase
       /\ session'.score_history = session.score_history

C21_ErrorFrames == [][C21_Step]_vars

\* a frame with the elbow at visibility 0.1 has been answered with ERROR in
\* a session that has counted a repetition
C21_Witness ==
    /\ outcome.op = "evaluate_frame"
    /\ outcome.result = "feedback"
    /\ outcome.frame = LowVisibilityFrame
    /\ outcome.feedback.level = "ERROR"
    /\ session.started
    /\ session.counter.count = 1
    /\ session.counter.phase = "COUNTED"
    /\ Len(session.score_history) = 1

(***************************************************************************)
(* C22.  Sequencing errors are atomic: evaluate_frame called when no       *)
(* exercise is bound, or when the session has not been started, fails with *)
(* InvalidState and leaves the whole session state unchanged.              *)
(***************************************************************************)
C22_Step ==
    ( /\ Called("evaluate_frame")
      /\ ~session.exercise.bound \/ ~session.started )
    => /\ outcome'.result = "InvalidState"
       /\ session' = session

C22_InvalidState == [][C22_Step]_vars

\* a frame has been refused of a session with an exercise bound and not
\* started
C22_Witness ==
    /\ outcome.op = "evaluate_frame"
    /\ outcome.result = "InvalidState"
    /\ session.exercise.bound
    /\ ~session.started

(***************************************************************************)
(* C23.  start_session is idempotent: called when the session is already   *)
(* started it is no error and changes nothing, so a call that follows      *)
(* another leaves the session state as the first left it.                  *)
(***************************************************************************)
C23_Step ==
    /\ (Called("start_session") /\ session.started)
          => (outcome'.result = "ok" /\ session' = session)
    /\ (Called("start_session") /\ outcome.op = "start_session")
          => session' = session

C23_Idempotent == [][C23_Step]_vars

\* start_session has been called a second time, on a session with a frame
\* evaluated, which is still there
C23_Witness ==
    /\ outcome.op = "start_session"
    /\ session.started
    /\ session.start_time + TickLength < Time
    /\ session.score_history # << >>
    /\ session.counter.count = 1

ScenarioRun ==
    /\ session.exercise.bound
    /\ session.exercise.variant = "shoulder_flexion"
    /\ session.exercise.config = ScenarioConfig
    /\ Len(calls) = 6
    /\ [i \in 1..6 |-> calls[i].angle] = << 10, 50, 90, 91, 10, 92 >>

\* the level the i-th frame was answered with
LevelOf(i) == calls[i].level

====
